---- MODULE Spec2Model ----
(***************************************************************************)
(* SafeCity crime-mapping core: grid hotspot detection, proximity search   *)
(* and clustering, bounds/centroid, the insight aggregator, and the        *)
(* validation of records.                                                  *)
(*                                                                         *)
(* Coordinates and distances are integers of a lattice whose unit is a    *)
(* power-of-two fraction of a degree, so that the additions and           *)
(* comparisons of createGrid and assignFIRsToGrid are exact, as they are   *)
(* in IEEE doubles for such values.  Quotients (percentage, centroid) are  *)
(* binary floating-point numbers of MantissaBits significant bits,         *)
(* rounded to nearest, ties to even, as IEEE doubles are.                  *)
(***************************************************************************)
EXTENDS Integers, Sequences, FiniteSets, TLC

VARIABLES firs, config, thresholds, query, content, now, op, calls, res, prev,
          loop, state, store

vars ==
    <<firs, config, thresholds, query, content, now, op, calls, res, prev,
      loop, state, store>>

inputs == <<firs, config, thresholds, query, content>>

\* what a call that is modelled as one step leaves alone
steps == <<loop>>

\* the App: its React state and the record store
app == <<state, store>>

----------------------------------------------------------------------------
(* Bounds of the model *)

MaxFIRs == 3
MaxLat == 2
MaxGridSize == 3
MantissaBits == 10
MaxNow == 1
MaxCalls == 2
MaxCells == 5
MaxRowLen == 6
MaxLines == 3

MaxStore == 3

\* distances and radii are in 1/DistanceScale of a lattice unit
DistanceScale == 10

----------------------------------------------------------------------------
(* Arithmetic helpers *)

Min(S) == CHOOSE x \in S : \A y \in S : x <= y

Max(S) == CHOOSE x \in S : \A y \in S : x >= y

Pow2(n) == IF n <= 0 THEN 1 ELSE 2 ^ n

RECURSIVE SumSeq(_)
SumSeq(s) == IF s = <<>> THEN 0 ELSE Head(s) + SumSeq(Tail(s))

Range(s) == {s[i] : i \in 1..Len(s)}

----------------------------------------------------------------------------
(* JavaScript numbers that are not lattice integers: a float is            *)
(* [m |-> mantissa, e |-> exponent] with value m * 2^e, where m = 0 or     *)
(* 2^(MantissaBits-1) <= m < 2^MantissaBits.                               *)

FloatZero == [m |-> 0, e |-> 0]

\* <<n, d, e>> with n/d * 2^e = num/den and 2^(P-1) <= n/d < 2^P
RECURSIVE Normalize(_, _, _)
Normalize(n, d, e) ==
    IF n % 2 = 0 /\ d % 2 = 0 THEN Normalize(n \div 2, d \div 2, e)
    ELSE IF n >= Pow2(MantissaBits) * d THEN Normalize(n, 2 * d, e + 1)
    ELSE IF n < Pow2(MantissaBits - 1) * d THEN Normalize(2 * n, d, e - 1)
    ELSE <<n, d, e>>

\* the float nearest to the rational num/den (num >= 0, den > 0), ties to even
RoundToFloat(num, den) ==
    IF num = 0 THEN FloatZero
    ELSE LET nde == Normalize(num, den, 0)
             q == nde[1] \div nde[2]
             r == nde[1] % nde[2]
             m == IF 2 * r > nde[2] \/ (2 * r = nde[2] /\ q % 2 = 1)
                  THEN q + 1 ELSE q
         IN  IF m = Pow2(MantissaBits)
             THEN [m |-> Pow2(MantissaBits - 1), e |-> nde[3] + 1]
             ELSE [m |-> m, e |-> nde[3]]

\* numerator and denominator of the exact value of a float
FloatNum(x) == IF x.e >= 0 THEN x.m * Pow2(x.e) ELSE x.m

FloatDen(x) == IF x.e >= 0 THEN 1 ELSE Pow2(-x.e)

\* a / b on two non-negative integers (b > 0)
FloatDiv(a, b) == RoundToFloat(a, b)

\* x * k for a float x and a non-negative integer k
FloatMulInt(x, k) == RoundToFloat(FloatNum(x) * k, FloatDen(x))

\* x + y on two floats
FloatAdd(x, y) ==
    LET d == IF FloatDen(x) >= FloatDen(y) THEN FloatDen(x) ELSE FloatDen(y)
    IN  RoundToFloat(FloatNum(x) * (d \div FloatDen(x))
                       + FloatNum(y) * (d \div FloatDen(y)), d)

\* Array.prototype.reduce((s, x) => s + x, 0) over floats, left to right
RECURSIVE FloatSumFrom(_, _)
FloatSumFrom(acc, s) ==
    IF s = <<>> THEN acc ELSE FloatSumFrom(FloatAdd(acc, Head(s)), Tail(s))

FloatSum(s) == FloatSumFrom(FloatZero, s)

----------------------------------------------------------------------------
(* Array.prototype.sort((a, b) => key(b) - key(a)): a stable sort,         *)
(* descending by key.  keys[i] is the key of element i; the result is the  *)
(* sequence of the input positions in output order.                        *)

\* the sequence of the values of a function on 1..n
AsSeq(f) == f \o <<>>

\* insertion of position i behind the positions whose key is not smaller
RECURSIVE InsertFrom(_, _, _)
InsertFrom(keys, sorted, i) ==
    IF i > Len(keys) THEN sorted
    ELSE InsertFrom(keys,
                    SelectSeq(sorted, LAMBDA j : keys[j] >= keys[i])
                      \o <<i>>
                      \o SelectSeq(sorted, LAMBDA j : keys[j] < keys[i]),
                    i + 1)

SortDescending(keys) == InsertFrom(AsSeq(keys), <<>>, 1)

\* the same with equal keys in reverse order
RECURSIVE InsertFrom_unstable(_, _, _)
InsertFrom_unstable(keys, sorted, i) ==
    IF i > Len(keys) THEN sorted
    ELSE InsertFrom_unstable(keys,
                    SelectSeq(sorted, LAMBDA j : keys[j] > keys[i])
                      \o <<i>>
                      \o SelectSeq(sorted, LAMBDA j : keys[j] <= keys[i]),
                    i + 1)

SortDescending_unstable(keys) == InsertFrom_unstable(AsSeq(keys), <<>>, 1)

----------------------------------------------------------------------------
(* Records *)

\* a FIR of the geospatial core: id, latitude, longitude; the remaining
\* fields are those the insight aggregator reads
MakeFIR(id, lat, lng) ==
    [id |-> id, latitude |-> lat, longitude |-> lng,
     time |-> <<"1", "4", ":", "3", "0">>, day |-> 2, month |-> 0,
     crimeType |-> "Theft", area |-> "Downtown"]

----------------------------------------------------------------------------
(* Grid partitioner *)

\* the default region in lattice units of 0.05 degrees from (28.4, 76.8)
DEFAULT_GRID_CONFIG ==
    [minLat |-> 0, maxLat |-> 10, latGridSize |-> 1,
     minLng |-> 0, maxLng |-> 12, lngGridSize |-> 1]

\* the inner loop of createGrid: the cells of one row, from lng on
RECURSIVE GridRow(_, _, _, _)
GridRow(cfg, lat, lng, cellId) ==
    IF lng < cfg.maxLng
    THEN <<[id |-> cellId,
            minLat |-> lat, maxLat |-> lat + cfg.latGridSize,
            minLng |-> lng, maxLng |-> lng + cfg.lngGridSize,
            centerLat |-> <<lat + (lat + cfg.latGridSize), 2>>,
            centerLng |-> <<lng + (lng + cfg.lngGridSize), 2>>,
            firCount |-> 0, firs |-> <<>>]>>
         \o GridRow(cfg, lat, lng + cfg.lngGridSize, cellId + 1)
    ELSE <<>>

\* the outer loop of createGrid: the rows from lat on
RECURSIVE GridRows(_, _, _)
GridRows(cfg, lat, cellId) ==
    IF lat < cfg.maxLat
    THEN LET row == GridRow(cfg, lat, cfg.minLng, cellId)
         IN  row \o GridRows(cfg, lat + cfg.latGridSize, cellId + Len(row))
    ELSE <<>>

createGrid(cfg) == GridRows(cfg, cfg.minLat, 0)

\* the condition under which assignFIRsToGrid puts a record into a cell
CellContains(cell, fir) ==
    /\ fir.latitude >= cell.minLat
    /\ fir.latitude < cell.maxLat
    /\ fir.longitude >= cell.minLng
    /\ fir.longitude < cell.maxLng

\* a push of the record that leaves the cell's firCount as it was
AssignOne_uncounted(records, grid, i) ==
    LET hit == {k \in 1..Len(grid) : CellContains(grid[k], records[i])}
    IN  IF hit = {} THEN grid
        ELSE LET k == Min(hit)
             IN  [grid EXCEPT ![k].firs = Append(@, i)]

\* the body of the forEach of assignFIRsToGrid for record i: the first cell
\* that contains it receives it (break), no cell does when none contains it
AssignOne(records, grid, i) ==
    LET hit == {k \in 1..Len(grid) : CellContains(grid[k], records[i])}
    IN  IF hit = {} THEN grid
        ELSE LET k == Min(hit)
             IN  [grid EXCEPT ![k].firs = Append(@, i),
                              ![k].firCount = @ + 1]

RECURSIVE AssignFrom(_, _, _)
AssignFrom(records, grid, i) ==
    IF i > Len(records) THEN grid
    ELSE AssignFrom(records, AssignOne(records, grid, i), i + 1)

\* cell.firs holds the positions of the records in the input array
assignFIRsToGrid(records, grid) == AssignFrom(records, grid, 1)

----------------------------------------------------------------------------
(* Hotspot classifier *)

classifyBySeverity_strict(firCount, th) ==
    IF firCount > th.high THEN "high"
    ELSE IF firCount > th.medium THEN "medium"
    ELSE "low"

classifyBySeverity(firCount, th) ==
    IF firCount >= th.high THEN "high"
    ELSE IF firCount >= th.medium THEN "medium"
    ELSE "low"

\* a hotspot whose display name carries the time of the call
HotspotOf_timeInName(cell, totalFIRs, th, time) ==
    [zoneId |-> cell.id,
     zoneName |-> cell.id + time,
     centerLat |-> cell.centerLat,
     centerLng |-> cell.centerLng,
     firCount |-> cell.firCount,
     severity |-> classifyBySeverity(cell.firCount, th),
     percentage |-> FloatMulInt(FloatDiv(cell.firCount, totalFIRs), 100),
     lastUpdated |-> time]

\* the hotspot pushed for one cell
HotspotOf(cell, totalFIRs, th, time) ==
    [zoneId |-> cell.id,
     zoneName |-> cell.id,
     centerLat |-> cell.centerLat,
     centerLng |-> cell.centerLng,
     firCount |-> cell.firCount,
     severity |-> classifyBySeverity(cell.firCount, th),
     percentage |-> FloatMulInt(FloatDiv(cell.firCount, totalFIRs), 100),
     lastUpdated |-> time]

\* grid.forEach: a hotspot for every cell that has a record, in grid order
HotspotsOfGrid(grid, totalFIRs, th, time) ==
    LET populated == SelectSeq(grid, LAMBDA cell : cell.firCount > 0)
    IN  AsSeq([p \in 1..Len(populated) |->
                  HotspotOf(populated[p], totalFIRs, th, time)])

\* a sort that is descending by firCount but puts later equals first
SortHotspots_unstable(hs) ==
    LET order == SortDescending_unstable([i \in 1..Len(hs) |-> hs[i].firCount])
    IN  AsSeq([p \in 1..Len(hs) |-> hs[order[p]]])

\* hotspots.sort((a, b) => b.firCount - a.firCount)
SortHotspots(hs) ==
    LET order == SortDescending([i \in 1..Len(hs) |-> hs[i].firCount])
    IN  AsSeq([p \in 1..Len(hs) |-> hs[order[p]]])

\* percentages taken of the records that were assigned to a cell
detectHotspots_assignedTotal(records, cfg, th, time) ==
    IF Len(records) = 0 THEN <<>>
    ELSE LET grid == assignFIRsToGrid(records, createGrid(cfg))
             populated == SelectSeq(grid, LAMBDA cell : cell.firCount > 0)
             assigned == SumSeq([k \in 1..Len(populated) |->
                                    populated[k].firCount])
         IN  SortHotspots(HotspotsOfGrid(grid, assigned, th, time))

\* no early return, and a hotspot for every cell of the grid
detectHotspots_everyCell(records, cfg, th, time) ==
    LET grid == assignFIRsToGrid(records, createGrid(cfg))
    IN  IF Len(records) = 0
        THEN [k \in 1..Len(grid) |-> HotspotOf(grid[k], 0, th, time)]
        ELSE SortHotspots(HotspotsOfGrid(grid, Len(records), th, time))

detectHotspots(records, cfg, th, time) ==
    IF Len(records) = 0 THEN <<>>
    ELSE LET grid == assignFIRsToGrid(records, createGrid(cfg))
         IN  SortHotspots(HotspotsOfGrid(grid, Len(records), th, time))

----------------------------------------------------------------------------
(* Distance primitive and proximity engine *)

\* the integer part of a square root
ISqrt(n) == CHOOSE r \in 0..n : r * r <= n /\ (r + 1) * (r + 1) > n

\* a distance measured from the origin, not from the first point
haversineDistance_fromOrigin(lat1, lng1, lat2, lng2) ==
    LET dLat == lat2
        dLng == lng2
    IN  ISqrt(DistanceScale * DistanceScale * (dLat * dLat + dLng * dLng))

\* haversineDistance over the lattice, in tenths of a lattice unit: at the
\* scale of the lattice the haversine term a is (dLat^2 + dLng^2) / 4 and
\* the distance R * c is the length of (dLat, dLng)
haversineDistance(lat1, lng1, lat2, lng2) ==
    LET dLat == lat2 - lat1
        dLng == lng2 - lng1
    IN  ISqrt(DistanceScale * DistanceScale * (dLat * dLat + dLng * dLng))

\* a search that leaves out the records at exactly the radius
findNearbyFIRs_exclusive(records, centerLat, centerLng, radiusKm) ==
    LET near == {i \in 1..Len(records) :
                    haversineDistance(centerLat, centerLng,
                                      records[i].latitude,
                                      records[i].longitude) < radiusKm}
    IN  SelectSeq(AsSeq([i \in 1..Len(records) |-> i]),
                  LAMBDA i : i \in near)

\* firs.filter(...): the positions, in input order, of the records within
\* radiusKm of the centre
findNearbyFIRs(records, centerLat, centerLng, radiusKm) ==
    LET near == {i \in 1..Len(records) :
                    haversineDistance(centerLat, centerLng,
                                      records[i].latitude,
                                      records[i].longitude) <= radiusKm}
    IN  SelectSeq(AsSeq([i \in 1..Len(records) |-> i]),
                  LAMBDA i : i \in near)

\* a nearby.forEach that pushes without marking the record visited
RECURSIVE AddNearby_unmarked(_, _, _, _)
AddNearby_unmarked(records, nearby, st, p) ==
    IF p > Len(nearby) THEN st
    ELSE LET nearFir == records[nearby[p]]
         IN  AddNearby_unmarked(records, nearby,
                 IF nearFir.id \notin st.visited
                 THEN [cluster |-> Append(st.cluster, nearby[p]),
                       visited |-> st.visited]
                 ELSE st,
                 p + 1)

\* nearby.forEach of clusterFIRs from position p of nearby on: st is
\* [cluster, visited]
RECURSIVE AddNearby(_, _, _, _)
AddNearby(records, nearby, st, p) ==
    IF p > Len(nearby) THEN st
    ELSE LET nearFir == records[nearby[p]]
         IN  AddNearby(records, nearby,
                 IF nearFir.id \notin st.visited
                 THEN [cluster |-> Append(st.cluster, nearby[p]),
                       visited |-> st.visited \cup {nearFir.id}]
                 ELSE st,
                 p + 1)

\* a cluster that takes the unvisited records of the whole record set, near
\* the seed or not
ClusterOne_allRecords(records, radiusKm, st, i) ==
    LET fir == records[i]
    IN  IF fir.id \in st.visited THEN st
        ELSE LET nearby == [p \in 1..Len(records) |-> p]
                 grown == AddNearby(records, nearby,
                              [cluster |-> <<i>>,
                               visited |-> st.visited \cup {fir.id}], 1)
             IN  [clusters |-> IF Len(grown.cluster) > 0
                               THEN Append(st.clusters, grown.cluster)
                               ELSE st.clusters,
                  visited |-> grown.visited]

\* the body of firs.forEach of clusterFIRs for record i: st is
\* [clusters, visited]
ClusterOne(records, radiusKm, st, i) ==
    LET fir == records[i]
    IN  IF fir.id \in st.visited THEN st
        ELSE LET nearby == findNearbyFIRs(records, fir.latitude,
                                          fir.longitude, radiusKm)
                 grown == AddNearby(records, nearby,
                              [cluster |-> <<i>>,
                               visited |-> st.visited \cup {fir.id}], 1)
             IN  [clusters |-> IF Len(grown.cluster) > 0
                               THEN Append(st.clusters, grown.cluster)
                               ELSE st.clusters,
                  visited |-> grown.visited]

\* a forEach that visits the records from the last to the first
RECURSIVE ClusterFrom_lastFirst(_, _, _, _)
ClusterFrom_lastFirst(records, radiusKm, st, i) ==
    IF i > Len(records) THEN st
    ELSE ClusterFrom_lastFirst(records, radiusKm,
             ClusterOne(records, radiusKm, st, Len(records) + 1 - i), i + 1)

RECURSIVE ClusterFrom(_, _, _, _)
ClusterFrom(records, radiusKm, st, i) ==
    IF i > Len(records) THEN st
    ELSE ClusterFrom(records, radiusKm,
                     ClusterOne(records, radiusKm, st, i), i + 1)

\* a sort that is descending by size but puts later equals first
SortClusters_unstable(cs) ==
    LET order == SortDescending_unstable([i \in 1..Len(cs) |-> Len(cs[i])])
    IN  AsSeq([p \in 1..Len(cs) |-> cs[order[p]]])

\* clusters.sort((a, b) => b.length - a.length)
SortClusters(cs) ==
    LET order == SortDescending([i \in 1..Len(cs) |-> Len(cs[i])])
    IN  AsSeq([p \in 1..Len(cs) |-> cs[order[p]]])

\* a cluster is the sequence of the positions of its records in the input
clusterFIRs(records, radiusKm) ==
    SortClusters(ClusterFrom(records, radiusKm,
                             [clusters |-> <<>>, visited |-> {}], 1).clusters)

----------------------------------------------------------------------------
(* Bounds and centroid *)

\* bounds that are zeros for an empty record set
calculateBounds_zeros(records) ==
    IF Len(records) = 0
    THEN [minLat |-> 0, maxLat |-> 0, minLng |-> 0, maxLng |-> 0]
    ELSE [minLat |-> Min({records[i].latitude : i \in 1..Len(records)}),
          maxLat |-> Max({records[i].latitude : i \in 1..Len(records)}),
          minLng |-> Min({records[i].longitude : i \in 1..Len(records)}),
          maxLng |-> Max({records[i].longitude : i \in 1..Len(records)})]

\* bounds whose running minima and maxima start at 0, not at firs[0]
calculateBounds_fromZero(records) ==
    IF Len(records) = 0
    THEN [minLat |-> DEFAULT_GRID_CONFIG.minLat,
          maxLat |-> DEFAULT_GRID_CONFIG.maxLat,
          minLng |-> DEFAULT_GRID_CONFIG.minLng,
          maxLng |-> DEFAULT_GRID_CONFIG.maxLng]
    ELSE [minLat |-> Min({0} \cup {records[i].latitude : i \in 1..Len(records)}),
          maxLat |-> Max({0} \cup {records[i].latitude : i \in 1..Len(records)}),
          minLng |-> Min({0} \cup {records[i].longitude : i \in 1..Len(records)}),
          maxLng |-> Max({0} \cup {records[i].longitude : i \in 1..Len(records)})]

calculateBounds(records) ==
    IF Len(records) = 0
    THEN [minLat |-> DEFAULT_GRID_CONFIG.minLat,
          maxLat |-> DEFAULT_GRID_CONFIG.maxLat,
          minLng |-> DEFAULT_GRID_CONFIG.minLng,
          maxLng |-> DEFAULT_GRID_CONFIG.maxLng]
    ELSE [minLat |-> Min({records[i].latitude : i \in 1..Len(records)}),
          maxLat |-> Max({records[i].latitude : i \in 1..Len(records)}),
          minLng |-> Min({records[i].longitude : i \in 1..Len(records)}),
          maxLng |-> Max({records[i].longitude : i \in 1..Len(records)})]

\* a centroid that is the point (0, 0), not null, for an empty record set
\* and divides by one more than the number of records
getCenter_offByOne(records) ==
    LET sumLat == SumSeq([i \in 1..Len(records) |-> records[i].latitude])
        sumLng == SumSeq([i \in 1..Len(records) |-> records[i].longitude])
    IN  <<[lat |-> FloatDiv(sumLat, Len(records) + 1),
           lng |-> FloatDiv(sumLng, Len(records) + 1)]>>

\* null is the empty sequence, a centre the sequence of one point
getCenter(records) ==
    IF Len(records) = 0 THEN <<>>
    ELSE LET sumLat == SumSeq([i \in 1..Len(records) |-> records[i].latitude])
             sumLng == SumSeq([i \in 1..Len(records) |-> records[i].longitude])
         IN  <<[lat |-> FloatDiv(sumLat, Len(records)),
                lng |-> FloatDiv(sumLng, Len(records))]>>

----------------------------------------------------------------------------
(* Insight aggregator *)

\* the result of parseInt on a string without a leading number
NaN == -1

Digits == <<"0", "1", "2", "3", "4", "5", "6", "7", "8", "9">>

IsDigit(c) == c \in Range(Digits)

DigitValue(c) == (CHOOSE d \in 1..10 : Digits[d] = c) - 1

\* str.split(':')[0]: the characters before the first colon
FirstField(str) ==
    LET colons == {k \in 1..Len(str) : str[k] = ":"}
    IN  IF colons = {} THEN str ELSE SubSeq(str, 1, Min(colons) - 1)

\* parseInt(str, 10) on a string of digits and other characters without
\* leading blanks or sign: the number of its leading digits
RECURSIVE ParseDigits(_, _)
ParseDigits(acc, str) ==
    IF str = <<>> \/ ~IsDigit(Head(str)) THEN acc
    ELSE ParseDigits(10 * acc + DigitValue(Head(str)), Tail(str))

parseInt(str) ==
    IF str = <<>> \/ ~IsDigit(Head(str)) THEN NaN ELSE ParseDigits(0, str)

HourOf(fir) == parseInt(FirstField(fir.time))

\* the 24 buckets in hour order, without the sort
getPeakHours_unsorted(records) ==
    LET hours == AsSeq([i \in 1..Len(records) |-> HourOf(records[i])])
    IN  AsSeq([h \in 1..24 |->
                  [hour |-> h - 1,
                   count |-> Cardinality({i \in 1..Len(hours) :
                                             hours[i] = h - 1})]])

\* the 24 buckets sorted with later equals first
getPeakHours_unstable(records) ==
    LET hours == AsSeq([i \in 1..Len(records) |-> HourOf(records[i])])
        buckets == AsSeq([h \in 1..24 |->
                       [hour |-> h - 1,
                        count |-> Cardinality({i \in 1..Len(hours) :
                                                  hours[i] = h - 1})]])
        order == SortDescending_unstable([h \in 1..24 |-> buckets[h].count])
    IN  AsSeq([p \in 1..24 |-> buckets[order[p]]])

getPeakHours(records) ==
    LET hours == AsSeq([i \in 1..Len(records) |-> HourOf(records[i])])
        buckets == AsSeq([h \in 1..24 |->
                       [hour |-> h - 1,
                        count |-> Cardinality({i \in 1..Len(hours) :
                                                  hours[i] = h - 1})]])
        order == SortDescending([h \in 1..24 |-> buckets[h].count])
    IN  AsSeq([p \in 1..24 |-> buckets[order[p]]])

dayNames == <<"Sunday", "Monday", "Tuesday", "Wednesday", "Thursday",
              "Friday", "Saturday">>

getDayWiseTrends(records) ==
    AsSeq([d \in 1..7 |->
              [day |-> dayNames[d],
               count |-> Cardinality({i \in 1..Len(records) :
                                         records[i].day = d - 1})]])

monthNames == <<"Jan", "Feb", "Mar", "Apr", "May", "Jun",
                "Jul", "Aug", "Sep", "Oct", "Nov", "Dec">>

getMonthlyTrends(records) ==
    AsSeq([m \in 1..12 |->
              [month |-> monthNames[m],
               count |-> Cardinality({i \in 1..Len(records) :
                                         records[i].month = m - 1})]])

\* Object.entries of a counting object whose keys are not numbers: the keys
\* in the order of their first occurrence, as positions of the records
FirstOccurrences(keys) ==
    SelectSeq(AsSeq([i \in 1..Len(keys) |-> i]),
              LAMBDA i : \A j \in 1..(i - 1) : keys[j] # keys[i])

\* the entries [key, count] ranked descending by count
RankedCounts(keys) ==
    LET first == FirstOccurrences(keys)
        entries == AsSeq([p \in 1..Len(first) |->
                       [key |-> keys[first[p]],
                        count |-> Cardinality({j \in 1..Len(keys) :
                                                  keys[j] = keys[first[p]]})]])
        order == SortDescending([p \in 1..Len(entries) |-> entries[p].count])
    IN  AsSeq([p \in 1..Len(entries) |-> entries[order[p]]])

getTopCrimeTypes(records, limit) ==
    LET ranked == RankedCounts(AsSeq([i \in 1..Len(records) |->
                                         records[i].crimeType]))
    IN  [p \in 1..(IF Len(ranked) < limit THEN Len(ranked) ELSE limit) |->
            [type |-> ranked[p].key, count |-> ranked[p].count]]

getAreaStatistics(records) ==
    LET ranked == RankedCounts(AsSeq([i \in 1..Len(records) |->
                                         records[i].area]))
    IN  [p \in 1..Len(ranked) |->
            [area |-> ranked[p].key, count |-> ranked[p].count]]

getPredictedPeakHours(records) ==
    LET peakHours == getPeakHours(records)
    IN  [p \in 1..3 |-> peakHours[p].hour]

\* count >= avg
GreaterThanFloat_orEqual(count, avg) == count * FloatDen(avg) >= FloatNum(avg)

\* count > avg for an integer count and a float avg
GreaterThanFloat(count, avg) == count * FloatDen(avg) > FloatNum(avg)

generateInsights(records, time) ==
    LET dayTrends == getDayWiseTrends(records)
        avgDailyCount ==
            FloatDiv(SumSeq([d \in 1..7 |-> dayTrends[d].count]), 7)
    IN  [peakHours |-> getPeakHours(records),
         dayWiseTrends |-> dayTrends,
         topCrimeTypes |-> getTopCrimeTypes(records, 10),
         monthlyTrends |-> getMonthlyTrends(records),
         areaStatistics |-> getAreaStatistics(records),
         predictedPeakHours |-> getPredictedPeakHours(records),
         highRiskDays |->
             SelectSeq(dayTrends,
                       LAMBDA d : GreaterThanFloat(d.count, avgDailyCount)),
         totalFIRs |-> Len(records),
         totalHotspots |-> 0,
         generatedAt |-> time]

----------------------------------------------------------------------------
(* Validation: strings are sequences of characters, a Date is               *)
(* [kind, t] with kind "null" (no date), "invalid" (Invalid Date) or        *)
(* "valid" (the time t), a number is [isNaN, v].                            *)

Whitespace == {" ", "\n"}

\* String.prototype.trim
RECURSIVE TrimStart(_)
TrimStart(str) ==
    IF str # <<>> /\ Head(str) \in Whitespace THEN TrimStart(Tail(str))
    ELSE str

RECURSIVE TrimEnd(_)
TrimEnd(str) ==
    IF str # <<>> /\ str[Len(str)] \in Whitespace
    THEN TrimEnd(SubSeq(str, 1, Len(str) - 1))
    ELSE str

Trim(str) == TrimEnd(TrimStart(str))

\* !text || text.trim().length === 0
IsMissingText(str) == str = <<>> \/ Len(Trim(str)) = 0

\* /^\d{2}:\d{2}(:\d{2})?$/.test(str)
MatchesTimeFormat(str) ==
    /\ Len(str) \in {5, 8}
    /\ IsDigit(str[1]) /\ IsDigit(str[2])
    /\ str[3] = ":"
    /\ IsDigit(str[4]) /\ IsDigit(str[5])
    /\ Len(str) = 8 => (str[6] = ":" /\ IsDigit(str[7]) /\ IsDigit(str[8]))

\* the errors.push of one check of validateFIR
ErrorIf(cond, message) == IF cond THEN <<message>> ELSE <<>>

DateErrors(date, time) ==
    IF date.kind = "null" THEN <<"Date is required">>
    ELSE IF date.kind = "invalid" THEN <<"Invalid date format">>
    ELSE IF date.t > time THEN <<"Date cannot be in the future">>
    ELSE <<>>

CoordinateErrors(x, limit, nanMessage, rangeMessage) ==
    IF x.isNaN THEN <<nanMessage>>
    ELSE IF x.v < -limit \/ x.v > limit THEN <<rangeMessage>>
    ELSE <<>>

\* validateFIR at the time `time` of new Date()
validateFIR(fir, time) ==
    LET errors ==
            ErrorIf(IsMissingText(fir.id), "FIR ID is required")
         \o ErrorIf(IsMissingText(fir.crimeType), "Crime type is required")
         \o DateErrors(fir.date, time)
         \o ErrorIf(fir.time = <<>> \/ ~MatchesTimeFormat(fir.time),
                    "Time must be in HH:MM or HH:MM:SS format")
         \o CoordinateErrors(fir.latitude, 90,
                             "Latitude must be a valid number",
                             "Latitude must be between -90 and 90")
         \o CoordinateErrors(fir.longitude, 180,
                             "Longitude must be a valid number",
                             "Longitude must be between -180 and 180")
         \o ErrorIf(IsMissingText(fir.area), "Area is required")
         \o ErrorIf(IsMissingText(fir.zone), "Zone is required")
         \o ErrorIf(IsMissingText(fir.policeStation),
                    "Police station is required")
         \o ErrorIf(fir.isAccident \notin BOOLEAN,
                    "isAccident must be a boolean value")
         \o ErrorIf(fir.isSensitiveZone \notin BOOLEAN,
                    "isSensitiveZone must be a boolean value")
    IN  [valid |-> Len(errors) = 0, errors |-> errors]

\* validRecords are positions of the input, invalidRecords pairs of a
\* position and its errors
validateFIRBatch(records, time) ==
    LET positions == AsSeq([i \in 1..Len(records) |-> i])
        invalid == SelectSeq(positions,
                             LAMBDA i : ~validateFIR(records[i], time).valid)
    IN  [validRecords |->
             SelectSeq(positions,
                       LAMBDA i : validateFIR(records[i], time).valid),
         invalidRecords |->
             AsSeq([p \in 1..Len(invalid) |->
                       [fir |-> invalid[p],
                        errors |-> validateFIR(records[invalid[p]],
                                               time).errors]])]

\* firs.forEach of findDuplicates from record i on: st is [seen, duplicates]
RECURSIVE ScanIds(_, _, _)
ScanIds(records, st, i) ==
    IF i > Len(records) THEN st
    ELSE ScanIds(records,
                 IF records[i].id \in st.seen
                 THEN [st EXCEPT !.duplicates = @ \cup {records[i].id}]
                 ELSE [st EXCEPT !.seen = @ \cup {records[i].id}],
                 i + 1)

\* only the records whose id was seen before them
findDuplicates_laterOnly(records) ==
    SelectSeq(AsSeq([i \in 1..Len(records) |-> i]),
              LAMBDA i : \E j \in 1..(i - 1) : records[j].id = records[i].id)

\* the positions of the records whose id is in duplicates
findDuplicates(records) ==
    LET duplicates == ScanIds(records, [seen |-> {}, duplicates |-> {}],
                              1).duplicates
    IN  SelectSeq(AsSeq([i \in 1..Len(records) |-> i]),
                  LAMBDA i : records[i].id \in duplicates)

\* errorCounts: the entries [error, count] in the order of first insertion
RECURSIVE CountErrors(_, _)
CountErrors(counts, errors) ==
    IF errors = <<>> THEN counts
    ELSE LET at == {k \in 1..Len(counts) : counts[k].error = Head(errors)}
         IN  CountErrors(
                 IF at = {}
                 THEN Append(counts, [error |-> Head(errors), count |-> 1])
                 ELSE [counts EXCEPT ![Min(at)].count = @ + 1],
                 Tail(errors))

RECURSIVE AllErrors(_)
AllErrors(invalidRecords) ==
    IF invalidRecords = <<>> THEN <<>>
    ELSE Head(invalidRecords).errors \o AllErrors(Tail(invalidRecords))

generateValidationReport(records, time) ==
    LET batch == validateFIRBatch(records, time)
        duplicates == findDuplicates(records)
    IN  [total |-> Len(records),
         valid |-> Len(batch.validRecords),
         invalid |-> Len(batch.invalidRecords),
         duplicates |-> Len(duplicates),
         errors |-> CountErrors(<<>>, AllErrors(batch.invalidRecords))]

----------------------------------------------------------------------------
(* CSV parser: strings are sequences of characters *)

Quote == "\""

\* char === '"' && insideQuotes && nextChar === '"' at character i
EscapedQuote(row, st, i) ==
    /\ row[i] = Quote
    /\ st.insideQuotes
    /\ i < Len(row)
    /\ row[i + 1] = Quote

\* a loop that separates the fields at every comma, quoted or not
RECURSIVE ScanRow_everyComma(_, _, _)
ScanRow_everyComma(row, st, i) ==
    CASE i > Len(row) ->
             Append(st.values, Trim(st.current))
      [] i <= Len(row) /\ EscapedQuote(row, st, i) ->
             ScanRow_everyComma(row,
                 [st EXCEPT !.current = Append(@, Quote)], i + 2)
      [] i <= Len(row) /\ row[i] = Quote /\ ~EscapedQuote(row, st, i) ->
             ScanRow_everyComma(row, [st EXCEPT !.insideQuotes = ~@], i + 1)
      [] i <= Len(row) /\ row[i] = "," ->
             ScanRow_everyComma(row,
                 [st EXCEPT !.values = Append(@, Trim(st.current)),
                            !.current = <<>>], i + 1)
      [] OTHER ->
             ScanRow_everyComma(row,
                 [st EXCEPT !.current = Append(@, row[i])], i + 1)

\* the loop of parseCSVRow from character i on, and the push of the last
\* field: st is [values, current, insideQuotes].  The arms are the branches
\* of the loop body in the order of the code.
RECURSIVE ScanRow(_, _, _)
ScanRow(row, st, i) ==
    CASE i > Len(row) ->
             Append(st.values, Trim(st.current))
      [] i <= Len(row) /\ EscapedQuote(row, st, i) ->
             ScanRow(row, [st EXCEPT !.current = Append(@, Quote)], i + 2)
      [] i <= Len(row) /\ row[i] = Quote /\ ~EscapedQuote(row, st, i) ->
             ScanRow(row, [st EXCEPT !.insideQuotes = ~@], i + 1)
      [] i <= Len(row) /\ row[i] = "," /\ ~st.insideQuotes ->
             ScanRow(row,
                 [st EXCEPT !.values = Append(@, Trim(st.current)),
                            !.current = <<>>], i + 1)
      [] OTHER ->
             ScanRow(row, [st EXCEPT !.current = Append(@, row[i])], i + 1)

parseCSVRow(row) ==
    ScanRow(row, [values |-> <<>>, current |-> <<>>, insideQuotes |-> FALSE], 1)

\* String.prototype.split for a separator of one character
RECURSIVE Split(_, _)
Split(str, sep) ==
    LET at == {k \in 1..Len(str) : str[k] = sep}
    IN  IF at = {} THEN <<str>>
        ELSE <<SubSeq(str, 1, Min(at) - 1)>>
             \o Split(SubSeq(str, Min(at) + 1, Len(str)), sep)

\* String.prototype.toLowerCase on letters A..Z
ToLowerCase(str) ==
    LET upper ==
            <<"A", "B", "C", "D", "E", "F", "G", "H", "I", "J", "K", "L", "M",
              "N", "O", "P", "Q", "R", "S", "T", "U", "V", "W", "X", "Y", "Z">>
        lower ==
            <<"a", "b", "c", "d", "e", "f", "g", "h", "i", "j", "k", "l", "m",
              "n", "o", "p", "q", "r", "s", "t", "u", "v", "w", "x", "y", "z">>
    IN  AsSeq([k \in 1..Len(str) |->
                  IF \E u \in 1..26 : upper[u] = str[k]
                  THEN lower[CHOOSE u \in 1..26 : upper[u] = str[k]]
                  ELSE str[k]])

\* the names of the columns, as the header parser leaves them
Column ==
    [id |-> <<"i", "d">>,
     crimetype |-> <<"c", "r", "i", "m", "e", "t", "y", "p", "e">>,
     date |-> <<"d", "a", "t", "e">>,
     time |-> <<"t", "i", "m", "e">>,
     latitude |-> <<"l", "a", "t", "i", "t", "u", "d", "e">>,
     longitude |-> <<"l", "o", "n", "g", "i", "t", "u", "d", "e">>,
     area |-> <<"a", "r", "e", "a">>,
     zone |-> <<"z", "o", "n", "e">>,
     policestation |->
         <<"p", "o", "l", "i", "c", "e", "s", "t", "a", "t", "i", "o", "n">>,
     description |->
         <<"d", "e", "s", "c", "r", "i", "p", "t", "i", "o", "n">>,
     isaccident |-> <<"i", "s", "a", "c", "c", "i", "d", "e", "n", "t">>,
     issensitivezone |->
         <<"i", "s", "s", "e", "n", "s", "i", "t", "i", "v", "e", "z", "o",
           "n", "e">>]

\* 'true'
TrueText == <<"t", "r", "u", "e">>

requiredHeaders ==
    <<Column.id, Column.crimetype, Column.date, Column.time,
      Column.latitude, Column.longitude, Column.area, Column.zone,
      Column.policestation>>

\* the value of a key that data does not have
Undefined == <<"undefined">>

\* data[name] after headers.forEach: the value of the last column of that
\* name for which the row has a value
DataOf(values, headers, name) ==
    LET cols == {k \in 1..Len(headers) : headers[k] = name /\ k <= Len(values)}
    IN  IF cols = {} THEN Undefined ELSE values[Max(cols)]

\* data[name]?.trim()
TrimmedData(values, headers, name) ==
    LET d == DataOf(values, headers, name)
    IN  IF d = Undefined THEN Undefined ELSE Trim(d)

\* !text for a string or undefined
IsFalsy(text) == text = Undefined \/ text = <<>>

\* parseFloat on a string of an optional sign and digits, followed by any
\* other characters but no fraction and no exponent
parseFloat(str) ==
    LET signed == str # <<>> /\ Head(str) \in {"-", "+"}
        digits == IF signed THEN Tail(str) ELSE str
    IN  IF digits = <<>> \/ ~IsDigit(Head(digits))
        THEN [isNaN |-> TRUE, v |-> 0]
        ELSE [isNaN |-> FALSE,
              v |-> IF Head(str) = "-" THEN 0 - ParseDigits(0, digits)
                    ELSE ParseDigits(0, digits)]

AllDigits(str) == \A k \in 1..Len(str) : IsDigit(str[k])

\* new Date of year-month-day at midnight: a time in days, of months of 31
\* days, since 2026-01-01; invalid for a month or a day that no month has
DateOf(y, m, d) ==
    IF m \in 1..12 /\ d \in 1..31
    THEN [kind |-> "valid", t |-> ((y - 2026) * 12 + (m - 1)) * 31 + (d - 1)]
    ELSE [kind |-> "invalid", t |-> 0]

\* /^\d{4}-\d{2}-\d{2}$/
IsDashDate(str) ==
    /\ Len(str) = 10
    /\ AllDigits(SubSeq(str, 1, 4)) /\ str[5] = "-"
    /\ AllDigits(SubSeq(str, 6, 7)) /\ str[8] = "-"
    /\ AllDigits(SubSeq(str, 9, 10))

\* /^\d{2}\/\d{2}\/\d{4}$/
IsSlashDate(str) ==
    /\ Len(str) = 10
    /\ AllDigits(SubSeq(str, 1, 2)) /\ str[3] = "/"
    /\ AllDigits(SubSeq(str, 4, 5)) /\ str[6] = "/"
    /\ AllDigits(SubSeq(str, 7, 10))

\* parseDate: YYYY-MM-DD, then DD/MM/YYYY, then MM/DD/YYYY; null for no
\* valid date
parseDate(dateStr) ==
    LET none == [kind |-> "null", t |-> 0]
        ymd == IF IsDashDate(dateStr)
               THEN DateOf(ParseDigits(0, SubSeq(dateStr, 1, 4)),
                           ParseDigits(0, SubSeq(dateStr, 6, 7)),
                           ParseDigits(0, SubSeq(dateStr, 9, 10)))
               ELSE none
        dmy == IF IsSlashDate(dateStr)
               THEN DateOf(ParseDigits(0, SubSeq(dateStr, 7, 10)),
                           ParseDigits(0, SubSeq(dateStr, 4, 5)),
                           ParseDigits(0, SubSeq(dateStr, 1, 2)))
               ELSE none
        mdy == IF IsSlashDate(dateStr)
               THEN DateOf(ParseDigits(0, SubSeq(dateStr, 7, 10)),
                           ParseDigits(0, SubSeq(dateStr, 1, 2)),
                           ParseDigits(0, SubSeq(dateStr, 4, 5)))
               ELSE none
    IN  IF ymd.kind = "valid" THEN ymd
        ELSE IF dmy.kind = "valid" THEN dmy
        ELSE IF mdy.kind = "valid" THEN mdy
        ELSE none

\* throw new Error(message), the message ending with the values of detail
Throw(message, detail) ==
    [message |-> message, detail |-> detail, thrown |-> TRUE]

\* parseFIRRecord: the record of a row, or the error it throws
parseFIRRecord(values, headers) ==
    LET id == TrimmedData(values, headers, Column.id)
        crimeType == TrimmedData(values, headers, Column.crimetype)
        dateStr == TrimmedData(values, headers, Column.date)
        time == TrimmedData(values, headers, Column.time)
        latText == TrimmedData(values, headers, Column.latitude)
        lngText == TrimmedData(values, headers, Column.longitude)
        latitude == parseFloat(IF IsFalsy(latText) THEN <<>> ELSE latText)
        longitude == parseFloat(IF IsFalsy(lngText) THEN <<>> ELSE lngText)
        area == TrimmedData(values, headers, Column.area)
        zone == TrimmedData(values, headers, Column.zone)
        policeStation == TrimmedData(values, headers, Column.policestation)
        description == TrimmedData(values, headers, Column.description)
        isAccident == TrimmedData(values, headers, Column.isaccident)
        isSensitiveZone == TrimmedData(values, headers, Column.issensitivezone)
    IN  IF IsFalsy(id) THEN Throw("FIR ID is required", <<>>)
        ELSE IF IsFalsy(crimeType) THEN Throw("Crime type is required", <<>>)
        ELSE IF IsFalsy(dateStr) THEN Throw("Date is required", <<>>)
        ELSE IF parseDate(dateStr).kind = "null"
        THEN Throw("Invalid date format", <<dateStr>>)
        ELSE IF IsFalsy(time) THEN Throw("Time is required", <<>>)
        ELSE IF latitude.isNaN \/ latitude.v < -90 \/ latitude.v > 90
        THEN Throw("Invalid latitude",
                   <<DataOf(values, headers, Column.latitude)>>)
        ELSE IF longitude.isNaN \/ longitude.v < -180 \/ longitude.v > 180
        THEN Throw("Invalid longitude",
                   <<DataOf(values, headers, Column.longitude)>>)
        ELSE IF IsFalsy(area) THEN Throw("Area is required", <<>>)
        ELSE IF IsFalsy(zone) THEN Throw("Zone is required", <<>>)
        ELSE IF IsFalsy(policeStation)
        THEN Throw("Police station is required", <<>>)
        ELSE [thrown |-> FALSE,
              record |->
                  [id |-> id,
                   latitude |-> latitude, longitude |-> longitude,
                   time |-> time, crimeType |-> crimeType, area |-> area,
                   date |-> parseDate(dateStr), zone |-> zone,
                   policeStation |-> policeStation,
                   isAccident |-> isAccident # Undefined
                                  /\ ToLowerCase(isAccident) = TrueText,
                   isSensitiveZone |-> isSensitiveZone # Undefined
                                  /\ ToLowerCase(isSensitiveZone) = TrueText,
                   description |-> IF IsFalsy(description) THEN Undefined
                                   ELSE description]]

\* an entry of errors: the message, its values, and N of "Row N: " (0 for a
\* message about the whole content)
ParseError(row, message, detail) ==
    [row |-> row, message |-> message, detail |-> detail]

\* a loop over the data rows that drops a row whose record cannot be made
RECURSIVE ParseRows_silent(_, _, _, _)
ParseRows_silent(lines, headers, st, i) ==
    IF i > Len(lines) THEN st
    ELSE IF Trim(lines[i]) = <<>>
    THEN ParseRows_silent(lines, headers, st, i + 1)
    ELSE LET out == parseFIRRecord(parseCSVRow(lines[i]), headers)
         IN  ParseRows_silent(lines, headers,
                 IF out.thrown THEN st
                 ELSE [st EXCEPT !.records = Append(@, out.record)],
                 i + 1)

\* the loop of parseCSV over the data rows from lines[i] on (lines[1] is
\* the header): st is [records, errors]
RECURSIVE ParseRows(_, _, _, _)
ParseRows(lines, headers, st, i) ==
    IF i > Len(lines) THEN st
    ELSE IF Trim(lines[i]) = <<>> THEN ParseRows(lines, headers, st, i + 1)
    ELSE LET out == parseFIRRecord(parseCSVRow(lines[i]), headers)
         IN  ParseRows(lines, headers,
                 IF out.thrown
                 THEN [st EXCEPT !.errors =
                          Append(@, ParseError(i, out.message, out.detail))]
                 ELSE [st EXCEPT !.records = Append(@, out.record)],
                 i + 1)

parseCSV(csvContent) ==
    LET lines == SelectSeq(Split(csvContent, "\n"),
                           LAMBDA line : Trim(line) # <<>>)
        split == Split(lines[1], ",")
        headers == AsSeq([k \in 1..Len(split) |-> ToLowerCase(Trim(split[k]))])
        missingHeaders ==
            SelectSeq(requiredHeaders, LAMBDA h : h \notin Range(headers))
    IN  IF csvContent = <<>> \/ Trim(csvContent) = <<>>
        THEN [records |-> <<>>,
              errors |-> <<ParseError(0, "CSV content is empty", <<>>)>>]
        ELSE IF Len(lines) < 2
        THEN [records |-> <<>>,
              errors |-> <<ParseError(0,
                  "CSV must contain at least headers and one data row",
                  <<>>)>>]
        ELSE IF Len(missingHeaders) > 0
        THEN [records |-> <<>>,
              errors |-> <<ParseError(0, "Missing required headers",
                                      missingHeaders)>>]
        ELSE ParseRows(lines, headers, [records |-> <<>>, errors |-> <<>>], 2)

----------------------------------------------------------------------------
(* Inputs *)

SeqsUpTo(S, n) == UNION {[1..k -> S] : k \in 0..n}

\* grid configurations with positive cell sizes (createGrid does not return
\* for a size <= 0)
GridConfigs ==
    [minLat : {0}, maxLat : 1..2, latGridSize : {1, MaxGridSize},
     minLng : {0}, maxLng : 1..2, lngGridSize : {1}]

\* ZONE_DENSITY_THRESHOLDS of config/constants
ThresholdSets == {[medium |-> 2, high |-> 3], [medium |-> 1, high |-> 2]}

\* error: null
NoError == [count |-> 0, message |-> "null", errors |-> <<>>]

\* filterService.resetFilters(): no criterion
resetFilters == [crimeTypes |-> <<>>]

\* useState of App
InitialState ==
    [allFIRs |-> <<>>, filteredFIRs |-> <<>>, hotspots |-> <<>>,
     filters |-> resetFilters, searchQuery |-> <<>>, error |-> NoError]

\* the handler that ran last was no upload
NoUpload ==
    [invalid |-> 0, parsed |-> [records |-> <<>>, errors |-> <<>>],
     failed |-> 0]

\* the results before any call
EmptyResults ==
    [hotspots |-> <<>>, nearby |-> <<>>, clusters |-> <<>>,
     bounds |-> [minLat |-> 0, maxLat |-> 0, minLng |-> 0, maxLng |-> 0],
     center |-> <<>>,
     insights |-> [peakHours |-> <<>>, dayWiseTrends |-> <<>>,
                   topCrimeTypes |-> <<>>, monthlyTrends |-> <<>>,
                   areaStatistics |-> <<>>, predictedPeakHours |-> <<>>,
                   highRiskDays |-> <<>>, totalFIRs |-> 0,
                   totalHotspots |-> 0, generatedAt |-> 0],
     validation |-> <<>>, duplicates |-> <<>>, distances |-> <<>>,
     values |-> <<>>, parsed |-> [records |-> <<>>, errors |-> <<>>],
     upload |-> NoUpload,
     report |-> [total |-> 0, valid |-> 0, invalid |-> 0, duplicates |-> 0,
                 errors |-> <<>>]]

\* no call of detectHotspots is in progress
NoLoop == [pc |-> "idle", lat |-> 0, lng |-> 0, cellId |-> 0]

InitCommon ==
    /\ now = 0
    /\ op = "none"
    /\ calls = 0
    /\ res = EmptyResults
    /\ prev = EmptyResults
    /\ loop = NoLoop
    /\ state = InitialState
    /\ store = <<>>
    /\ content = <<>>

\* the places of the grid specification: inside, on the upper edges of and
\* beyond the regions of GridConfigs
GridPlaces == (0..2) \X (0..1)

\* the records of the grid specification: identifiers are the positions
GridFIRs ==
    {[i \in 1..Len(pts) |-> MakeFIR(i, pts[i][1], pts[i][2])] :
        pts \in SeqsUpTo(GridPlaces, MaxFIRs)}

InitGrid ==
    /\ firs \in GridFIRs
    /\ config \in GridConfigs \cup {DEFAULT_GRID_CONFIG}
    /\ thresholds \in ThresholdSets
    /\ query = [lat |-> 0, lng |-> 0, radiusKm |-> 0]
    /\ InitCommon

\* identifier sequences up to renaming: an identifier is 1 or at most one
\* more than the largest before it; records may share an identifier
IdSeqs(n) ==
    {ids \in [1..n -> 1..n] :
        \A i \in 1..n : ids[i] <= 1 + Max({0} \cup {ids[j] : j \in 1..(i - 1)})}

\* the places of the proximity specification: a line of places one unit
\* apart and one place off the line
ProximityPlaces == ((0..MaxLat) \X {0}) \cup {<<1, 1>>}

ProximityFIRs ==
    UNION {{[i \in 1..n |-> MakeFIR(ids[i], pts[i][1], pts[i][2])] :
               ids \in IdSeqs(n), pts \in [1..n -> ProximityPlaces]} :
           n \in 0..MaxFIRs}

\* radii: zero, one unit, the diagonal of a unit square
Radii == {0, DistanceScale, ISqrt(2 * DistanceScale * DistanceScale)}

InitProximity ==
    /\ firs \in ProximityFIRs
    /\ config = DEFAULT_GRID_CONFIG
    /\ thresholds = [medium |-> 2, high |-> 3]
    /\ query \in [lat : {0, 1}, lng : {0}, radiusKm : Radii]
    /\ InitCommon

\* records that differ in every field the operations read
RepeatRecords ==
    {MakeFIR(1, 0, 0),
     MakeFIR(2, 1, 0),
     [MakeFIR(3, 1, 1) EXCEPT !.time = <<"2", "2", ":", "0", "0">>,
                              !.day = 5, !.month = 11,
                              !.crimeType = "Robbery", !.area = "Uptown"]}

InitRepeat ==
    /\ firs \in SeqsUpTo(RepeatRecords, MaxFIRs)
    /\ config \in {DEFAULT_GRID_CONFIG,
                   [minLat |-> 0, maxLat |-> 1, latGridSize |-> 1,
                    minLng |-> 0, maxLng |-> 2, lngGridSize |-> 1]}
    /\ thresholds = [medium |-> 2, high |-> 3]
    /\ query = [lat |-> 0, lng |-> 0, radiusKm |-> DistanceScale]
    /\ InitCommon

----------------------------------------------------------------------------
(* Operations *)

\* what a call of the operation returns for the inputs, at the present time
Result(name) ==
    CASE name = "detectHotspots" ->
             [EmptyResults EXCEPT
                 !.hotspots = detectHotspots(firs, config, thresholds, now)]
      [] name = "findNearbyFIRs" ->
             [EmptyResults EXCEPT
                 !.nearby = findNearbyFIRs(firs, query.lat, query.lng,
                                           query.radiusKm)]
      [] name = "clusterFIRs" ->
             [EmptyResults EXCEPT !.clusters = clusterFIRs(firs, query.radiusKm)]
      [] name = "calculateBounds" ->
             [EmptyResults EXCEPT !.bounds = calculateBounds(firs)]
      [] name = "getCenter" ->
             [EmptyResults EXCEPT !.center = getCenter(firs)]
      [] name = "generateInsights" ->
             [EmptyResults EXCEPT !.insights = generateInsights(firs, now)]
      [] name = "haversineDistance" ->
             [EmptyResults EXCEPT
                 !.distances =
                     AsSeq([i \in 1..Len(firs) |->
                        AsSeq([j \in 1..Len(firs) |->
                           haversineDistance(firs[i].latitude,
                                             firs[i].longitude,
                                             firs[j].latitude,
                                             firs[j].longitude)])])]
      [] name = "findDuplicates" ->
             [EmptyResults EXCEPT !.duplicates = findDuplicates(firs)]
      [] name = "generateValidationReport" ->
             [EmptyResults EXCEPT
                 !.report = generateValidationReport(firs, now)]
      [] name = "parseCSVRow" ->
             [EmptyResults EXCEPT !.values = parseCSVRow(content)]
      [] name = "parseCSV" ->
             [EmptyResults EXCEPT !.parsed = parseCSV(content)]

\* the first call of an operation
Call(name) ==
    /\ op = "none"
    /\ op' = name
    /\ calls' = 1
    /\ prev' = res
    /\ res' = Result(name)
    /\ UNCHANGED <<inputs, app, now, steps>>

\* a further call of the operation with the same inputs: the result of the
\* call before it is kept
CallAgain ==
    /\ op # "none"
    /\ calls < MaxCalls
    /\ calls' = calls + 1
    /\ prev' = res
    /\ res' = Result(op)
    /\ UNCHANGED <<inputs, app, now, op, steps>>

DetectHotspots == Call("detectHotspots")

NextGrid == DetectHotspots

SpecGrid == InitGrid /\ [][NextGrid]_vars

FindNearbyFIRs == Call("findNearbyFIRs")

ClusterFIRs == Call("clusterFIRs")

NextProximity == FindNearbyFIRs \/ ClusterFIRs

SpecProximity == InitProximity /\ [][NextProximity]_vars

CalculateBounds == Call("calculateBounds")

GetCenter == Call("getCenter")

GenerateInsights == Call("generateInsights")

\* the clock read by new Date() advances between two calls, or does not
Tick ==
    /\ now < MaxNow
    /\ now' = now + 1
    /\ UNCHANGED <<inputs, app, op, calls, res, prev, steps>>

NextRepeat ==
    \/ DetectHotspots
    \/ FindNearbyFIRs
    \/ ClusterFIRs
    \/ CalculateBounds
    \/ GetCenter
    \/ GenerateInsights
    \/ CallAgain
    \/ Tick

SpecRepeat == InitRepeat /\ [][NextRepeat]_vars

\* the bounding box and the centroid of a record set
InitBounds ==
    /\ firs \in GridFIRs
    /\ config = DEFAULT_GRID_CONFIG
    /\ thresholds = [medium |-> 2, high |-> 3]
    /\ query = [lat |-> 0, lng |-> 0, radiusKm |-> 0]
    /\ InitCommon

NextBounds == CalculateBounds \/ GetCenter

SpecBounds == InitBounds /\ [][NextBounds]_vars

\* records of the insight specification: times of day in both formats, an
\* hour with a leading zero, a time that validateFIR accepts although it is
\* no time of day, and days at both ends of the week
InsightKinds ==
    {[time |-> <<"1", "4", ":", "3", "0">>, day |-> 0],
     [time |-> <<"1", "4", ":", "3", "0", ":", "4", "5">>, day |-> 2],
     [time |-> <<"2", "2", ":", "0", "0">>, day |-> 2],
     [time |-> <<"2", "2", ":", "0", "0">>, day |-> 6],
     [time |-> <<"0", "9", ":", "1", "5">>, day |-> 0],
     [time |-> <<"2", "5", ":", "7", "0">>, day |-> 6]}

InsightFIRs ==
    {[i \in 1..Len(ks) |->
         [MakeFIR(i, 0, 0) EXCEPT !.time = ks[i].time, !.day = ks[i].day]] :
        ks \in SeqsUpTo(InsightKinds, MaxFIRs)}

\* one record on every day of a week
WeekFIRs == [d \in 1..7 |-> [MakeFIR(d, 0, 0) EXCEPT !.day = d - 1]]

\* the same and a second record on Sunday: a mean of 8 / 7
UnevenWeekFIRs == Append(WeekFIRs, [MakeFIR(8, 0, 0) EXCEPT !.day = 0])

InitInsights ==
    /\ firs \in InsightFIRs \cup {WeekFIRs, UnevenWeekFIRs}
    /\ config = DEFAULT_GRID_CONFIG
    /\ thresholds = [medium |-> 2, high |-> 3]
    /\ query = [lat |-> 0, lng |-> 0, radiusKm |-> 0]
    /\ InitCommon

NextInsights == GenerateInsights

SpecInsights == InitInsights /\ [][NextInsights]_vars

\* the validFIR of the validation tests
ValidFIR ==
    [id |-> <<"A">>, crimeType |-> <<"T", "h", "e", "f", "t">>,
     date |-> [kind |-> "valid", t |-> 0],
     time |-> <<"1", "4", ":", "3", "0">>,
     latitude |-> [isNaN |-> FALSE, v |-> 28],
     longitude |-> [isNaN |-> FALSE, v |-> 77],
     area |-> <<"D">>, zone |-> <<"Z">>, policeStation |-> <<"P">>,
     isAccident |-> FALSE, isSensitiveZone |-> FALSE]

\* time strings: times of day in both forms, two-digit fields out of range,
\* and strings of another form
ValidationTimes ==
    {<<"1", "4", ":", "3", "0">>,
     <<"1", "4", ":", "3", "0", ":", "4", "5">>,
     <<"0", "0", ":", "0", "0">>,
     <<"2", "3", ":", "5", "9", ":", "5", "9">>,
     <<"2", "5", ":", "7", "0">>,
     <<"2", "4", ":", "0", "0">>,
     <<"1", "4", ":", "6", "0">>,
     <<"1", "4", ":", "3", "0", ":", "6", "1">>,
     <<"1", ":", "3", "0">>,
     <<"1", "4", ":", "3">>,
     <<"1", "4", "-", "3", "0">>,
     <<"1", "4", ":", "3", "0", ":", "4">>,
     <<"a", "b", ":", "c", "d">>,
     <<" ", "1", "4", ":", "3", "0">>,
     <<>>}

\* single records: validFIR with other times, ids, dates and latitudes
ValidationSingles ==
    {<<[ValidFIR EXCEPT !.time = time, !.id = id, !.date = date,
                        !.latitude = lat]>> :
        time \in ValidationTimes,
        id \in {<<"A">>, <<>>, <<" ">>},
        date \in {[kind |-> "valid", t |-> 0], [kind |-> "valid", t |-> 1],
                  [kind |-> "invalid", t |-> 0], [kind |-> "null", t |-> 0]},
        lat \in {[isNaN |-> FALSE, v |-> 28], [isNaN |-> FALSE, v |-> 100],
                 [isNaN |-> TRUE, v |-> 0]}}

\* the records of batches: validFIR, validFIR with id B, a record of id A
\* that fails validation, and the record without id and crime type
BatchKinds ==
    {ValidFIR,
     [ValidFIR EXCEPT !.id = <<"B">>],
     [ValidFIR EXCEPT !.time = <<"1", ":", "3", "0">>],
     [ValidFIR EXCEPT !.id = <<>>, !.crimeType = <<>>]}

\* the batch of the report test
ReportBatch ==
    <<ValidFIR,
      [ValidFIR EXCEPT !.id = <<"B">>],
      ValidFIR,
      [ValidFIR EXCEPT !.id = <<>>, !.crimeType = <<>>]>>

InitValidation ==
    /\ firs \in ValidationSingles \cup SeqsUpTo(BatchKinds, MaxFIRs)
                   \cup {ReportBatch}
    /\ config = DEFAULT_GRID_CONFIG
    /\ thresholds = [medium |-> 2, high |-> 3]
    /\ query = [lat |-> 0, lng |-> 0, radiusKm |-> 0]
    /\ InitCommon

\* validateFIR on one record of the set: the result is kept with the
\* position of the record
ValidateFIR ==
    \E i \in 1..Len(firs) :
        /\ op = "none"
        /\ op' = "validateFIR"
        /\ calls' = 1
        /\ prev' = res
        /\ res' = [EmptyResults EXCEPT
                      !.validation =
                          <<[fir |-> i,
                             valid |-> validateFIR(firs[i], now).valid,
                             errors |-> validateFIR(firs[i], now).errors]>>]
        /\ UNCHANGED <<inputs, app, now, steps>>

FindDuplicates == Call("findDuplicates")

GenerateValidationReport == Call("generateValidationReport")

NextValidation == ValidateFIR \/ FindDuplicates \/ GenerateValidationReport

SpecValidation == InitValidation /\ [][NextValidation]_vars

\* pairs of points of a square of the lattice
DistancePairs ==
    {<<MakeFIR(1, a[1], a[2]), MakeFIR(2, b[1], b[2])>> :
        a \in (0..MaxLat) \X (0..MaxLat), b \in (0..MaxLat) \X (0..MaxLat)}

InitDistance ==
    /\ firs \in DistancePairs
    /\ config = DEFAULT_GRID_CONFIG
    /\ thresholds = [medium |-> 2, high |-> 3]
    /\ query = [lat |-> 0, lng |-> 0, radiusKm |-> 0]
    /\ InitCommon

\* haversineDistance from every point of the pair to every point of it
HaversineDistance == Call("haversineDistance")

NextDistance == HaversineDistance

SpecDistance == InitDistance /\ [][NextDistance]_vars

\* the characters of a row: a letter, a blank, the comma and the quote
RowChars == {"a", " ", ",", Quote}

InitCSVRow ==
    /\ content \in SeqsUpTo(RowChars, MaxRowLen)
    /\ firs = <<>>
    /\ config = DEFAULT_GRID_CONFIG
    /\ thresholds = [medium |-> 2, high |-> 3]
    /\ query = [lat |-> 0, lng |-> 0, radiusKm |-> 0]
    /\ now = 0
    /\ op = "none"
    /\ calls = 0
    /\ res = EmptyResults
    /\ prev = EmptyResults
    /\ loop = NoLoop
    /\ state = InitialState
    /\ store = <<>>

ParseCSVRow == Call("parseCSVRow")

NextCSVRow == ParseCSVRow

SpecCSVRow == InitCSVRow /\ [][NextCSVRow]_vars

----------------------------------------------------------------------------
(* CSV contents: a header row or none, and up to MaxLines further lines *)

\* the header row of the tests of parseCSV
HeaderLine ==
    <<"i", "d", ",", "c", "r", "i", "m", "e", "T", "y", "p", "e", ",", "d",
      "a", "t", "e", ",", "t", "i", "m", "e", ",", "l", "a", "t", "i", "t",
      "u", "d", "e", ",", "l", "o", "n", "g", "i", "t", "u", "d", "e", ",",
      "a", "r", "e", "a", ",", "z", "o", "n", "e", ",", "p", "o", "l", "i",
      "c", "e", "S", "t", "a", "t", "i", "o", "n">>

\* a header row without five of the required headers
ShortHeaderLine ==
    <<"i", "d", ",", "c", "r", "i", "m", "e", "T", "y", "p", "e", ",", "d",
      "a", "t", "e", ",", "t", "i", "m", "e">>

\* data rows: a plain row, a row with a quoted comma and a DD/MM/YYYY date, a
\* row whose latitude is no number, a row without crime type, a row whose
\* time is no HH:MM (a record all the same), an empty and a blank line
RowKinds ==
    {"ok", "quoted", "badLatitude", "noCrimeType", "badTime", "blank",
     "spaces"}

RowText(kind) ==
    CASE kind = "ok" ->
             <<"F", "1", ",", "T", "h", "e", "f", "t", ",", "2", "0", "2",
               "6", "-", "0", "1", "-", "0", "1", ",", "1", "4", ":", "3",
               "0", ",", "2", "8", ",", "7", "7", ",", "D", ",", "Z", ",",
               "P", "S">>
      [] kind = "quoted" ->
             <<"F", "2", ",", Quote, "T", ",", " ", "a", Quote, ",", "0",
               "1", "/", "0", "1", "/", "2", "0", "2", "6", ",", "0", "9",
               ":", "4", "5", ",", "2", "8", ",", "7", "7", ",", "D", ",",
               "Z", ",", "P">>
      [] kind = "badLatitude" ->
             <<"F", "3", ",", "T", ",", "2", "0", "2", "6", "-", "0", "1",
               "-", "0", "1", ",", "1", "4", ":", "3", "0", ",", "x", ",",
               "7", "7", ",", "D", ",", "Z", ",", "P">>
      [] kind = "noCrimeType" ->
             <<"F", "4", ",", ",", "2", "0", "2", "6", "-", "0", "1", "-",
               "0", "1", ",", "1", "4", ":", "3", "0", ",", "2", "8", ",",
               "7", "7", ",", "D", ",", "Z", ",", "P">>
      [] kind = "badTime" ->
             <<"F", "5", ",", "T", ",", "2", "0", "2", "6", "-", "0", "1",
               "-", "0", "1", ",", "2", "p", "m", ",", "2", "8", ",", "7",
               "7", ",", "D", ",", "Z", ",", "P">>
      [] kind = "blank" ->
             <<>>
      [] kind = "spaces" ->
             <<" ", " ">>

\* the lines joined by line feeds
RECURSIVE Join(_, _)
Join(lines, sep) ==
    IF lines = <<>> THEN <<>>
    ELSE IF Len(lines) = 1 THEN lines[1]
    ELSE lines[1] \o <<sep>> \o Join(Tail(lines), sep)

\* the shape of a content: which header row it starts with, if any, and the
\* kinds of the lines after it
CSVShapes ==
    [header : {"full", "short", "none"}, rows : SeqsUpTo(RowKinds, MaxLines)]

\* the content of a shape
CSVContent(shape) ==
    LET head == CASE shape.header = "full" -> <<HeaderLine>>
                  [] shape.header = "short" -> <<ShortHeaderLine>>
                  [] shape.header = "none" -> <<>>
    IN  Join(head \o [k \in 1..Len(shape.rows) |-> RowText(shape.rows[k])],
             "\n")

InitCSV ==
    /\ query \in CSVShapes
    /\ content = CSVContent(query)
    /\ firs = <<>>
    /\ config = DEFAULT_GRID_CONFIG
    /\ thresholds = [medium |-> 2, high |-> 3]
    /\ now = 0
    /\ op = "none"
    /\ calls = 0
    /\ res = EmptyResults
    /\ prev = EmptyResults
    /\ loop = NoLoop
    /\ state = InitialState
    /\ store = <<>>

ParseCSV == Call("parseCSV")

NextCSV == ParseCSV

SpecCSV == InitCSV /\ [][NextCSV]_vars

----------------------------------------------------------------------------
(* detectHotspots step by step: the two loops of createGrid.  loop.pc is    *)
(* the position in the code, loop.lat and loop.lng are the loop variables, *)
(* loop.cellId is the number of cells pushed, counted up to MaxCells.      *)

\* grid configurations as plain data: empty and non-empty ranges, cell
\* sizes of zero and positive cell sizes
LoopConfigs ==
    [minLat : {0}, maxLat : 0..2, latGridSize : 0..2,
     minLng : {0}, maxLng : 0..2, lngGridSize : 0..2]

InitCreateGrid ==
    /\ firs \in {<<>>, <<MakeFIR(1, 0, 0)>>, <<MakeFIR(1, 1, 1), MakeFIR(2, 0, 1)>>}
    /\ config \in LoopConfigs
    /\ thresholds = [medium |-> 2, high |-> 3]
    /\ query = [lat |-> 0, lng |-> 0, radiusKm |-> 0]
    /\ InitCommon

\* detectHotspots is entered: an empty record set returns at once, any
\* other enters createGrid, whose outer loop starts at minLat
EnterDetectHotspots ==
    /\ loop.pc = "idle"
    /\ IF Len(firs) = 0
       THEN /\ loop' = [loop EXCEPT !.pc = "done"]
            /\ op' = "detectHotspots"
            /\ calls' = 1
            /\ prev' = res
            /\ res' = [EmptyResults EXCEPT !.hotspots = <<>>]
       ELSE /\ loop' = [loop EXCEPT !.pc = "outerTest", !.lat = config.minLat,
                                    !.cellId = 0]
            /\ UNCHANGED <<op, calls, res, prev>>
    /\ UNCHANGED <<inputs, app, now>>

\* lat < config.maxLat
OuterTest ==
    /\ loop.pc = "outerTest"
    /\ loop' = IF loop.lat < config.maxLat
               THEN [loop EXCEPT !.pc = "innerTest", !.lng = config.minLng]
               ELSE [loop EXCEPT !.pc = "return"]
    /\ UNCHANGED <<inputs, app, now, op, calls, res, prev>>

\* lng < config.maxLng
InnerTest ==
    /\ loop.pc = "innerTest"
    /\ loop' = IF loop.lng < config.maxLng
               THEN [loop EXCEPT !.pc = "innerBody"]
               ELSE [loop EXCEPT !.pc = "outerStep"]
    /\ UNCHANGED <<inputs, app, now, op, calls, res, prev>>

\* cells.push(...); cellId++; lng += config.lngGridSize
InnerBody ==
    /\ loop.pc = "innerBody"
    /\ loop' = [loop EXCEPT !.pc = "innerTest",
                            !.cellId = Min({@ + 1, MaxCells}),
                            !.lng = @ + config.lngGridSize]
    /\ UNCHANGED <<inputs, app, now, op, calls, res, prev>>

\* lat += config.latGridSize
OuterStep ==
    /\ loop.pc = "outerStep"
    /\ loop' = [loop EXCEPT !.pc = "outerTest", !.lat = @ + config.latGridSize]
    /\ UNCHANGED <<inputs, app, now, op, calls, res, prev>>

\* createGrid has returned: the records are assigned, the hotspots are
\* built and sorted, and detectHotspots returns
ReturnHotspots ==
    /\ loop.pc = "return"
    /\ loop' = [loop EXCEPT !.pc = "done"]
    /\ op' = "detectHotspots"
    /\ calls' = 1
    /\ prev' = res
    /\ res' = Result("detectHotspots")
    /\ UNCHANGED <<inputs, app, now>>

NextCreateGrid ==
    \/ EnterDetectHotspots
    \/ OuterTest
    \/ InnerTest
    \/ InnerBody
    \/ OuterStep
    \/ ReturnHotspots

\* the steps of detectHotspots up to the return of createGrid
CreateGridStep ==
    EnterDetectHotspots \/ OuterTest \/ InnerTest \/ InnerBody \/ OuterStep

\* the step of ReturnHotspots, as far as the position in the code goes
Returns == loop.pc = "return" /\ loop' = [loop EXCEPT !.pc = "done"]

\* the call is made, and a call that has started keeps running: the
\* JavaScript thread executes the next statement of the function as long as
\* there is one
SpecCreateGrid ==
    /\ InitCreateGrid
    /\ [][NextCreateGrid]_vars
    /\ WF_vars(CreateGridStep)
    /\ WF_loop(Returns)

----------------------------------------------------------------------------
(* The App component: its React state, the record store of firService and *)
(* the handlers of the user's actions.  A handler reads `state` as the    *)
(* render before the event left it (snapshot) and queues updaters, which  *)
(* React applies in order to the state they find (s).  loading and        *)
(* activePage play no part in the handlers below and are left out.        *)

Theft == <<"T", "h", "e", "f", "t">>

Assault == <<"A", "s", "s", "a", "u", "l", "t">>

\* two of the sample records of loadPreloadedData, in the form of the
\* records of parseCSV
sampleFIRs ==
    <<[id |-> <<"S", "1">>,
       latitude |-> [isNaN |-> FALSE, v |-> 19],
       longitude |-> [isNaN |-> FALSE, v |-> 72],
       time |-> <<"1", "4", ":", "3", "0">>,
       crimeType |-> Theft, area |-> <<"M">>,
       date |-> [kind |-> "valid", t |-> 0],
       zone |-> <<"Z">>, policeStation |-> <<"P">>,
       isAccident |-> FALSE, isSensitiveZone |-> FALSE,
       description |-> Undefined],
      [id |-> <<"S", "2">>,
       latitude |-> [isNaN |-> FALSE, v |-> 19],
       longitude |-> [isNaN |-> FALSE, v |-> 72],
       time |-> <<"0", "9", ":", "4", "5">>,
       crimeType |-> Assault, area |-> <<"M">>,
       date |-> [kind |-> "valid", t |-> 0],
       zone |-> <<"Z">>, policeStation |-> <<"P">>,
       isAccident |-> FALSE, isSensitiveZone |-> FALSE,
       description |-> Undefined]>>

\* String.prototype.includes
Includes(text, part) ==
    \E k \in 1..(Len(text) - Len(part) + 1) :
        SubSeq(text, k, k + Len(part) - 1) = part

\* filterService.searchAndFilter: the records of one of the chosen crime
\* types, if any is chosen, whose id, crime type or area includes the query
searchAndFilter(records, filters, searchQuery) ==
    SelectSeq(records,
        LAMBDA fir :
            /\ (filters.crimeTypes = <<>>
                \/ fir.crimeType \in Range(filters.crimeTypes))
            /\ \E text \in {fir.id, fir.crimeType, fir.area} :
                   Includes(ToLowerCase(text), ToLowerCase(searchQuery)))

\* hotspotService.detectHotspots as the App uses it: the hotspots of a
\* record list, named by the identifiers of the list
HotspotsFor(records) ==
    [of |-> AsSeq([k \in 1..Len(records) |-> records[k].id])]

\* firService.addFIRBatch on the store st: the records at the positions in
\* fails are not added and are counted as failed
addFIRBatch(st, records, fails) ==
    LET positions == AsSeq([k \in 1..Len(records) |-> k])
        added == SelectSeq(positions, LAMBDA k : k \notin fails)
    IN  [store |-> st \o AsSeq([k \in 1..Len(added) |-> records[added[k]]]),
         failed |-> Len(records) - Len(added)]

\* handleSearch
handleSearch(snapshot, s, searchQuery) ==
    LET filtered ==
            searchAndFilter(snapshot.allFIRs, snapshot.filters, searchQuery)
    IN  [s EXCEPT !.searchQuery = searchQuery,
                  !.filteredFIRs = filtered,
                  !.hotspots = HotspotsFor(filtered)]

\* the onFiltersChange that App hands to FilterPanel
onFiltersChange(snapshot, s, filters) ==
    LET filtered ==
            searchAndFilter(snapshot.allFIRs, filters, snapshot.searchQuery)
    IN  [s EXCEPT !.filters = filters,
                  !.filteredFIRs = filtered,
                  !.hotspots = HotspotsFor(filtered)]

\* handleResetFilters
handleResetFilters(snapshot, s) ==
    [s EXCEPT !.filters = resetFilters,
              !.filteredFIRs = snapshot.allFIRs,
              !.hotspots = HotspotsFor(snapshot.allFIRs),
              !.searchQuery = <<>>]

\* handleCrimeTypeChange of FilterPanel: the filters it hands to
\* onFiltersChange
handleCrimeTypeChange(currentFilters, selectedType) ==
    LET crimeTypes == currentFilters.crimeTypes
        newCrimeTypes ==
            IF selectedType = <<>> THEN <<>>
            ELSE IF selectedType \in Range(crimeTypes)
            THEN SelectSeq(crimeTypes, LAMBDA t : t # selectedType)
            ELSE Append(crimeTypes, selectedType)
    IN  [currentFilters EXCEPT !.crimeTypes = newCrimeTypes]

\* handleClearFilters of FilterPanel: onFiltersChange, then onSearch, both
\* of the same render
handleClearFilters(snapshot) ==
    handleSearch(snapshot, onFiltersChange(snapshot, snapshot, resetFilters),
                 <<>>)

\* `CSV Import Errors: ${errors.slice(0, 3).join('; ')}`
ImportErrors(errors) ==
    [count |-> 0, message |-> "CSV Import Errors",
     errors |-> SubSeq(errors, 1, Min({3, Len(errors)}))]

\* handleFileUpload after the parse errors are dealt with: validateFIRBatch,
\* addFIRBatch and the last setState
ImportRecords(s, st, records, time, fails) ==
    LET batch == validateFIRBatch(records, time)
        validRecords ==
            AsSeq([k \in 1..Len(batch.validRecords) |->
                      records[batch.validRecords[k]]])
        s1 == IF Len(batch.invalidRecords) > 0
              THEN [s EXCEPT !.error =
                       [count |-> Len(batch.invalidRecords),
                        message |-> "records failed validation",
                        errors |-> <<>>]]
              ELSE s
        result == addFIRBatch(st, validRecords, fails)
        s2 == IF result.failed > 0
              THEN [s1 EXCEPT !.error =
                       [count |-> result.failed,
                        message |-> "Failed to add records",
                        errors |-> <<>>]]
              ELSE s1
        allFIRs == result.store
    IN  [state |-> [s2 EXCEPT !.allFIRs = allFIRs,
                              !.filteredFIRs = allFIRs,
                              !.hotspots = HotspotsFor(allFIRs),
                              !.error = NoError],
         store |-> result.store,
         invalid |-> Len(batch.invalidRecords),
         failed |-> result.failed]

\* a handler of uploads that goes on after reporting the parse errors
handleFileUpload_noReturn(s, st, parsed, time, fails) ==
    ImportRecords(IF Len(parsed.errors) > 0
                  THEN [s EXCEPT !.error = ImportErrors(parsed.errors)]
                  ELSE s,
                  st, parsed.records, time, fails)

\* reader.onload of handleFileUpload, parsed being parseCSV(content): the
\* state and the store it leaves, and how many records failed
handleFileUpload(s, st, parsed, time, fails) ==
    IF Len(parsed.errors) > 0
    THEN [state |-> [s EXCEPT !.error = ImportErrors(parsed.errors)],
          store |-> st, invalid |-> 0, failed |-> 0]
    ELSE ImportRecords(s, st, parsed.records, time, fails)

\* the texts typed into a search field
SearchQueries == {<<>>, <<"s", "2">>, <<"t", "h", "e", "f", "t">>}

\* the choices of the crime type select: '' and a type
CrimeTypeChoices == {<<>>, Theft}

\* the contents of the uploaded files: a good row, a good row and one that
\* validateFIR rejects, rows whose record cannot be made (one, and four
\* around a good row), an incomplete header row, and nothing
UploadShapes ==
    {[header |-> "full", rows |-> <<"ok">>],
     [header |-> "full", rows |-> <<"ok", "badTime">>],
     [header |-> "full", rows |-> <<"ok", "badLatitude">>],
     [header |-> "full",
      rows |-> <<"badLatitude", "noCrimeType", "ok", "badLatitude",
                 "noCrimeType">>],
     [header |-> "short", rows |-> <<"ok">>],
     [header |-> "none", rows |-> <<>>]}

\* the App after mounting: loadPreloadedData has put the sample records
\* into the store and into the state
InitApp ==
    /\ firs = <<>>
    /\ config = DEFAULT_GRID_CONFIG
    /\ thresholds = [medium |-> 2, high |-> 3]
    /\ query = [lat |-> 0, lng |-> 0, radiusKm |-> 0]
    /\ content = <<>>
    /\ now = 0
    /\ op = "none"
    /\ calls = 0
    /\ res = EmptyResults
    /\ prev = EmptyResults
    /\ loop = NoLoop
    /\ store = sampleFIRs
    /\ state = [InitialState EXCEPT !.allFIRs = sampleFIRs,
                                    !.filteredFIRs = sampleFIRs,
                                    !.hotspots = HotspotsFor(sampleFIRs)]

\* a handler other than that of uploads has run
Handled(name) ==
    /\ op' = name
    /\ res' = [res EXCEPT !.upload = NoUpload]
    /\ UNCHANGED <<inputs, now, calls, prev, loop, store>>

\* the user types into a search field
SearchInput ==
    \E searchQuery \in SearchQueries :
        /\ state' = handleSearch(state, state, searchQuery)
        /\ Handled("handleSearch")

\* the user chooses a crime type in FilterPanel
CrimeTypeChange ==
    \E selectedType \in CrimeTypeChoices :
        /\ state' = onFiltersChange(state, state,
                        handleCrimeTypeChange(state.filters, selectedType))
        /\ Handled("onFiltersChange")

\* the user clicks 'Clear All Filters' in FilterPanel
ClearAllFilters ==
    /\ state' = handleClearFilters(state)
    /\ Handled("handleClearFilters")

\* the user clicks 'Reset Filters'
ResetFilters ==
    /\ state' = handleResetFilters(state, state)
    /\ Handled("handleResetFilters")

\* the file of an upload has been read: the first of its valid records may
\* fail to be added; the store holds up to MaxStore records.  res.upload
\* keeps what parseCSV returned and how many records failed.
FileUpload ==
    \E shape \in UploadShapes, fails \in {{}, {1}} :
        \E parsed \in {parseCSV(CSVContent(shape))} :
            \E out \in {handleFileUpload(state, store, parsed, now, fails)} :
                /\ Len(out.store) <= MaxStore
                /\ state' = out.state
                /\ store' = out.store
                /\ op' = "handleFileUpload"
                /\ res' = [res EXCEPT !.upload =
                              [invalid |-> out.invalid, parsed |-> parsed,
                               failed |-> out.failed]]
                /\ UNCHANGED <<inputs, now, calls, prev, loop>>

NextApp ==
    \/ SearchInput
    \/ CrimeTypeChange
    \/ ClearAllFilters
    \/ ResetFilters
    \/ FileUpload

SpecApp == InitApp /\ [][NextApp]_vars

----------------------------------------------------------------------------
(* Properties of detectHotspots *)

HotspotsReturned == op = "detectHotspots"

\* the grid as detectHotspots leaves it after assignFIRsToGrid
AssignedGrid == assignFIRsToGrid(firs, createGrid(config))

\* the positions of the records that were put into some cell
AssignedFIRs ==
    LET grid == AssignedGrid
    IN  UNION {Range(grid[k].firs) : k \in 1..Len(grid)}

HotspotCountSum ==
    SumSeq([p \in 1..Len(res.hotspots) |-> res.hotspots[p].firCount])

\* the configured region, with and without its upper edges
InRegionClosed(fir) ==
    /\ config.minLat <= fir.latitude /\ fir.latitude <= config.maxLat
    /\ config.minLng <= fir.longitude /\ fir.longitude <= config.maxLng

InRegionHalfOpen(fir) ==
    /\ config.minLat <= fir.latitude /\ fir.latitude < config.maxLat
    /\ config.minLng <= fir.longitude /\ fir.longitude < config.maxLng

\* C1: the firCounts of the hotspots sum to the number of input records
\* inside the configured region, whichever way the region's upper edges are
\* read (at least the records of the half-open region, at most those of the
\* closed region); a record outside the region is in no hotspot.
C1_CountsSumToRegion ==
    HotspotsReturned =>
        /\ HotspotCountSum >=
             Cardinality({i \in 1..Len(firs) : InRegionHalfOpen(firs[i])})
        /\ HotspotCountSum <=
             Cardinality({i \in 1..Len(firs) : InRegionClosed(firs[i])})

\* a record that has a hotspot: its cell is the zone of a returned hotspot
CountedInHotspot(i) ==
    LET grid == AssignedGrid
    IN  \E k \in 1..Len(grid) :
            /\ i \in Range(grid[k].firs)
            /\ \E p \in 1..Len(res.hotspots) :
                   res.hotspots[p].zoneId = grid[k].id

\* a record on the upper latitude or longitude edge of the region, its other
\* coordinate inside the region
OnOuterEdge(fir) ==
    \/ /\ fir.latitude = config.maxLat
       /\ config.minLat < config.maxLat
       /\ config.minLng <= fir.longitude /\ fir.longitude < config.maxLng
    \/ /\ fir.longitude = config.maxLng
       /\ config.minLng < config.maxLng
       /\ config.minLat <= fir.latitude /\ fir.latitude < config.maxLat

\* C3: the outer edge of the region is inclusive of max: a record whose
\* latitude is config.maxLat or whose longitude is config.maxLng is assigned
\* to a cell and counted in a hotspot.
C3_OuterEdgeInclusive ==
    HotspotsReturned =>
        \A i \in 1..Len(firs) : OnOuterEdge(firs[i]) => CountedInHotspot(i)

\* C4: hotspots are non-increasing by firCount, and hotspots of equal
\* firCount are in the generation order of their cells (ascending GRID_
\* index).
C4_SortedStable ==
    HotspotsReturned =>
        \A p, q \in 1..Len(res.hotspots) :
            p < q =>
                /\ res.hotspots[p].firCount >= res.hotspots[q].firCount
                /\ res.hotspots[p].firCount = res.hotspots[q].firCount
                       => res.hotspots[p].zoneId < res.hotspots[q].zoneId

\* a result with three hotspots of equal firCount
C4_Witness ==
    /\ HotspotsReturned
    /\ Len(res.hotspots) = 3
    /\ \A p \in 1..3 : res.hotspots[p].firCount = 1

\* a result in which the sort moved a later cell before an earlier one
C4_WitnessReordered ==
    /\ HotspotsReturned
    /\ \E p, q \in 1..Len(res.hotspots) :
           /\ p < q
           /\ res.hotspots[p].zoneId > res.hotspots[q].zoneId

SeverityTier(s) == CASE s = "low" -> 0 [] s = "medium" -> 1 [] s = "high" -> 2

\* C5: severity is "high" from the high threshold on, else "medium" from
\* the medium threshold on, else "low"; with medium <= high a larger count
\* never has a lower tier.
C5_SeverityByThresholds ==
    HotspotsReturned =>
        /\ \A p \in 1..Len(res.hotspots) :
               LET h == res.hotspots[p]
               IN  /\ h.severity = "high" <=> h.firCount >= thresholds.high
                   /\ h.severity = "medium" <=>
                          (h.firCount < thresholds.high
                           /\ h.firCount >= thresholds.medium)
                   /\ h.severity = "low" <=>
                          (h.firCount < thresholds.high
                           /\ h.firCount < thresholds.medium)
        /\ thresholds.medium <= thresholds.high =>
               \A p, q \in 1..Len(res.hotspots) :
                   res.hotspots[p].firCount > res.hotspots[q].firCount =>
                       SeverityTier(res.hotspots[p].severity)
                           >= SeverityTier(res.hotspots[q].severity)

\* a result with a hotspot exactly on a threshold and one of a lower tier
C5_Witness ==
    /\ HotspotsReturned
    /\ \E p, q \in 1..Len(res.hotspots) :
           /\ res.hotspots[p].firCount = thresholds.high
           /\ res.hotspots[p].severity = "high"
           /\ res.hotspots[q].severity # "high"

Abs(x) == IF x < 0 THEN -x ELSE x

\* the percentages of the returned hotspots, added up in output order
PercentSum ==
    FloatSum([p \in 1..Len(res.hotspots) |-> res.hotspots[p].percentage])

NoneDropped == HotspotCountSum = Len(firs)

\* |percentage - 100 * firCount / N| <= 3 * 2^-MantissaBits * 100 * firCount / N
\* for N = the size of the full input: the two roundings of
\* (firCount / N) * 100
PercentageOfFullInput(h) ==
    Abs(FloatNum(h.percentage) * Len(firs)
          - 100 * h.firCount * FloatDen(h.percentage)) * Pow2(MantissaBits)
        <= 3 * 100 * h.firCount * FloatDen(h.percentage)

\* C6 as stated: every percentage is 100 * firCount / N of the full input,
\* and the percentages of a result sum to 100 exactly when no record was
\* dropped, to less than 100 otherwise.
C6_PercentagesSumTo100 ==
    (HotspotsReturned /\ firs # <<>>) =>
        /\ \A p \in 1..Len(res.hotspots) :
               PercentageOfFullInput(res.hotspots[p])
        /\ NoneDropped <=> FloatNum(PercentSum) = 100 * FloatDen(PercentSum)
        /\ ~NoneDropped => FloatNum(PercentSum) < 100 * FloatDen(PercentSum)

\* C6 amended: every percentage is (firCount / N) * 100 of the full input N
\* in floating point (two roundings); the sum of k percentages is less than
\* 100 when a record was dropped and within (k + 2) * 2^-MantissaBits * 100
\* of 100, not always exactly 100, when none was.
C6_PercentagesSumRounded ==
    (HotspotsReturned /\ firs # <<>>) =>
        /\ \A p \in 1..Len(res.hotspots) :
               PercentageOfFullInput(res.hotspots[p])
        /\ NoneDropped =>
               Abs(FloatNum(PercentSum) - 100 * FloatDen(PercentSum))
                     * Pow2(MantissaBits)
                   <= (Len(res.hotspots) + 2) * 100 * FloatDen(PercentSum)
        /\ ~NoneDropped => FloatNum(PercentSum) < 100 * FloatDen(PercentSum)

\* results whose percentages were rounded: none dropped and a sum that is
\* not 100, and one with a dropped record
C6_Witness ==
    /\ HotspotsReturned
    /\ NoneDropped
    /\ Len(res.hotspots) >= 2
    /\ FloatNum(PercentSum) # 100 * FloatDen(PercentSum)

C6_WitnessDropped ==
    /\ HotspotsReturned
    /\ ~NoneDropped
    /\ Len(res.hotspots) >= 2


\* C7: an empty record set gives an empty hotspot list, whatever the grid
\* configuration.
C7_EmptyInEmptyOut ==
    (HotspotsReturned /\ firs = <<>>) => res.hotspots = <<>>

\* detectHotspots has returned for no records and a grid that has cells,
\* under the default and under a supplied configuration
C7_Witness ==
    /\ HotspotsReturned
    /\ firs = <<>>
    /\ createGrid(config) # <<>>

C7_WitnessDefault == C7_Witness /\ config = DEFAULT_GRID_CONFIG

----------------------------------------------------------------------------
(* Properties of the proximity engine *)

ClustersReturned == op = "clusterFIRs"

NearbyReturned == op = "findNearbyFIRs"

UniqueIds ==
    \A i, j \in 1..Len(firs) : firs[i].id = firs[j].id => i = j

\* the number of places at which record i occurs in the returned clusters
Occurrences(i) ==
    SumSeq([c \in 1..Len(res.clusters) |->
               Cardinality({p \in 1..Len(res.clusters[c]) :
                               res.clusters[c][p] = i})])

ClusterSizeSum == SumSeq([c \in 1..Len(res.clusters) |-> Len(res.clusters[c])])

ClustersPartitionInput ==
    /\ \A i \in 1..Len(firs) : Occurrences(i) = 1
    /\ ClusterSizeSum = Len(firs)

C8_NearbyExactlyWithinRadius ==
    NearbyReturned =>
        /\ \A p \in 1..Len(res.nearby) : res.nearby[p] \in 1..Len(firs)
        /\ \A p, q \in 1..Len(res.nearby) :
               p < q => res.nearby[p] < res.nearby[q]
        /\ \A i \in 1..Len(firs) :
               i \in Range(res.nearby) <=>
                   haversineDistance(query.lat, query.lng, firs[i].latitude,
                                     firs[i].longitude) <= query.radiusKm

\* a search that returned a record at exactly the radius and left one out
C8_Witness ==
    /\ NearbyReturned
    /\ query.radiusKm > 0
    /\ \E p \in 1..Len(res.nearby) :
           haversineDistance(query.lat, query.lng,
                             firs[res.nearby[p]].latitude,
                             firs[res.nearby[p]].longitude) = query.radiusKm
    /\ Len(res.nearby) < Len(firs)

\* C9: clusters are non-increasing by size, and clusters of equal size are
\* in the order in which their seeds (their first records) come in the
\* input.
C9_ClustersSortedStable ==
    ClustersReturned =>
        \A p, q \in 1..Len(res.clusters) :
            p < q =>
                /\ Len(res.clusters[p]) >= Len(res.clusters[q])
                /\ Len(res.clusters[p]) = Len(res.clusters[q])
                       => res.clusters[p][1] < res.clusters[q][1]

\* three clusters of one record each
C9_Witness ==
    /\ ClustersReturned
    /\ Len(res.clusters) = 3
    /\ \A c \in 1..3 : Len(res.clusters[c]) = 1

\* a result in which the sort moved a later cluster before an earlier one
C9_WitnessReordered ==
    /\ ClustersReturned
    /\ \E p, q \in 1..Len(res.clusters) :
           p < q /\ res.clusters[p][1] > res.clusters[q][1]

----------------------------------------------------------------------------
(* Determinism *)

SecondCallReturned == calls = MaxCalls

\* C10 as stated: two calls of an operation with identical inputs return
\* identical outputs, in every field of the result.
C10_IdenticalOutputs == SecondCallReturned => res = prev

\* results without the time at which they were produced
WithoutTimestamps(r) ==
    [r EXCEPT !.hotspots = [p \in 1..Len(r.hotspots) |->
                               [r.hotspots[p] EXCEPT !.lastUpdated = 0]],
              !.insights = [r.insights EXCEPT !.generatedAt = 0]]

\* C10 amended: two calls with identical inputs return outputs that are
\* identical in every field other than the time stamps lastUpdated (of each
\* hotspot) and generatedAt (of the insights), which are the times of the
\* calls.
C10_IdenticalButTimestamps ==
    /\ SecondCallReturned => WithoutTimestamps(res) = WithoutTimestamps(prev)
    /\ \A p \in 1..Len(res.hotspots) : res.hotspots[p].lastUpdated <= now
    /\ res.insights.generatedAt <= now

\* two calls of detectHotspots at different times that returned hotspots
C10_Witness ==
    /\ SecondCallReturned
    /\ op = "detectHotspots"
    /\ Len(res.hotspots) >= 2
    /\ res.hotspots[1].lastUpdated # prev.hotspots[1].lastUpdated

\* two calls of generateInsights at different times
C10_WitnessInsights ==
    /\ SecondCallReturned
    /\ op = "generateInsights"
    /\ Len(firs) >= 2
    /\ res.insights.generatedAt # prev.insights.generatedAt

----------------------------------------------------------------------------
(* Properties of calculateBounds and getCenter *)

BoundsReturned == op = "calculateBounds"

CenterReturned == op = "getCenter"

\* the region 28.4..28.9 by 76.8..77.4 in lattice units of 0.05 degrees
\* from (28.4, 76.8)
DefaultRegion == [minLat |-> 0, maxLat |-> 10, minLng |-> 0, maxLng |-> 12]

\* C11: calculateBounds on an empty record set returns the default region
\* (28.4..28.9 by 76.8..77.4), not zeros or null.
C11_EmptyGivesDefaultRegion ==
    (BoundsReturned /\ firs = <<>>) => res.bounds = DefaultRegion

\* calculateBounds has returned for no records
C11_Witness ==
    /\ BoundsReturned
    /\ firs = <<>>
    /\ res.bounds.maxLat > res.bounds.minLat

\* C12: for a non-empty record set the bounds are ordered, every record
\* lies inside them, and each of the four bounds is the coordinate of some
\* record.
C12_TightBox ==
    (BoundsReturned /\ firs # <<>>) =>
        LET b == res.bounds
        IN  /\ b.minLat <= b.maxLat
            /\ b.minLng <= b.maxLng
            /\ \A i \in 1..Len(firs) :
                   /\ b.minLat <= firs[i].latitude
                   /\ firs[i].latitude <= b.maxLat
                   /\ b.minLng <= firs[i].longitude
                   /\ firs[i].longitude <= b.maxLng
            /\ \E i \in 1..Len(firs) : firs[i].latitude = b.minLat
            /\ \E i \in 1..Len(firs) : firs[i].latitude = b.maxLat
            /\ \E i \in 1..Len(firs) : firs[i].longitude = b.minLng
            /\ \E i \in 1..Len(firs) : firs[i].longitude = b.maxLng

\* a box of three records, none at latitude 0, whose lower bounds are not
\* attained by the first record
C12_Witness ==
    /\ BoundsReturned
    /\ Len(firs) = 3
    /\ res.bounds.minLat > 0
    /\ res.bounds.minLat < firs[1].latitude
    /\ res.bounds.minLng < firs[1].longitude

\* the value of a float is the integer n
FloatIsInt(x, n) == FloatNum(x) = n * FloatDen(x)

\* C13: getCenter returns null exactly when the record set is empty; on a
\* single record it returns that record's latitude and longitude.
C13_CenterNullIffEmpty ==
    CenterReturned =>
        /\ res.center = <<>> <=> firs = <<>>
        /\ Len(firs) = 1 =>
               /\ Len(res.center) = 1
               /\ FloatIsInt(res.center[1].lat, firs[1].latitude)
               /\ FloatIsInt(res.center[1].lng, firs[1].longitude)

\* getCenter has returned for one record that is not at the origin
C13_Witness ==
    /\ CenterReturned
    /\ Len(firs) = 1
    /\ firs[1].latitude = 2
    /\ firs[1].longitude = 1
    /\ res.center # <<>>

\* getCenter has returned null
C13_WitnessEmpty ==
    /\ CenterReturned
    /\ firs = <<>>
    /\ res.center = <<>>

----------------------------------------------------------------------------
(* Properties of the insight aggregator *)

InsightsReturned == op = "generateInsights"

\* the hour written in the first two characters of a time HH:MM[:SS]
TimeHour(time) == 10 * DigitValue(time[1]) + DigitValue(time[2])

\* the number of input records whose time has hour h
RecordsInHour(h) ==
    Cardinality({i \in 1..Len(firs) : TimeHour(firs[i].time) = h})

\* C14: peakHours has exactly 24 entries, one per hour 0..23, the count of
\* hour h is the number of records whose time has hour h, and the entries
\* are non-increasing by count.
C14_PeakHoursBuckets ==
    InsightsReturned =>
        LET ph == res.insights.peakHours
        IN  /\ Len(ph) = 24
            /\ \A h \in 0..23 :
                   Cardinality({p \in 1..Len(ph) : ph[p].hour = h}) = 1
            /\ \A p \in 1..Len(ph) : ph[p].count = RecordsInHour(ph[p].hour)
            /\ \A p \in 1..(Len(ph) - 1) : ph[p].count >= ph[p + 1].count

\* two records in hour 14 and one in hour 22: hour 14 with count 2 is first
C14_Witness ==
    /\ InsightsReturned
    /\ Len(firs) = 3
    /\ RecordsInHour(14) = 2
    /\ RecordsInHour(22) = 1
    /\ res.insights.peakHours[1] = [hour |-> 14, count |-> 2]
    /\ res.insights.peakHours[2] = [hour |-> 22, count |-> 1]

\* hour g ranks before hour h: a higher count, or the same count and the
\* lower hour number
RanksBefore(g, h) ==
    \/ RecordsInHour(g) > RecordsInHour(h)
    \/ RecordsInHour(g) = RecordsInHour(h) /\ g < h

\* C15: predictedPeakHours is the three hours of the highest counts in
\* descending count order, equal counts in favour of the lower hour; three
\* distinct hours always, 0, 1, 2 for an empty record set.
C15_PredictedTopThree ==
    InsightsReturned =>
        LET pp == res.insights.predictedPeakHours
        IN  /\ Len(pp) = 3
            /\ \A p \in 1..3 : pp[p] \in 0..23
            /\ RanksBefore(pp[1], pp[2]) /\ RanksBefore(pp[2], pp[3])
            /\ \A h \in 0..23 \ {pp[1], pp[2], pp[3]} : RanksBefore(pp[3], h)
            /\ firs = <<>> => pp = <<0, 1, 2>>

\* hour 22 came first in the input, hours 14 and 22 have one record each:
\* the lower hour is predicted first, and the third hour is hour 0
C15_Witness ==
    /\ InsightsReturned
    /\ Len(firs) = 2
    /\ TimeHour(firs[1].time) = 22
    /\ TimeHour(firs[2].time) = 14
    /\ res.insights.predictedPeakHours = <<14, 22, 0>>

\* the prediction for no records
C15_WitnessEmpty ==
    /\ InsightsReturned
    /\ firs = <<>>
    /\ res.insights.predictedPeakHours = <<0, 1, 2>>

\* the number of input records on day d of the week (0 is Sunday)
RecordsOnDay(d) == Cardinality({i \in 1..Len(firs) : firs[i].day = d})

\* C16: a day is in highRiskDays if and only if 7 * count > total records;
\* highRiskDays is in calendar order, empty for no records or seven equal
\* counts, and never all seven days.
C16_HighRiskAboveMean ==
    InsightsReturned =>
        LET week == [d \in 1..7 |->
                        [day |-> dayNames[d], count |-> RecordsOnDay(d - 1)]]
            hr == res.insights.highRiskDays
        IN  /\ hr = SelectSeq(week, LAMBDA e : 7 * e.count > Len(firs))
            /\ Len(hr) < 7
            /\ (\A d \in 0..6 : RecordsOnDay(d) = RecordsOnDay(0)) => hr = <<>>

\* two high-risk days listed in calendar order although the later day came
\* first in the input
C16_Witness ==
    /\ InsightsReturned
    /\ Len(firs) = 3
    /\ firs[1].day = 6
    /\ firs[3].day = 0
    /\ Len(res.insights.highRiskDays) = 2
    /\ res.insights.highRiskDays[1].day = "Sunday"
    /\ res.insights.highRiskDays[2].day = "Saturday"

\* a record on every day of the week: no day exceeds the mean
C16_WitnessEvenWeek ==
    /\ InsightsReturned
    /\ Len(firs) = 7
    /\ res.insights.highRiskDays = <<>>

\* eight records, two of them on Sunday: Sunday alone exceeds the mean 8 / 7
C16_WitnessUnevenWeek ==
    /\ InsightsReturned
    /\ Len(firs) = 8
    /\ res.insights.highRiskDays = <<[day |-> "Sunday", count |-> 2]>>

----------------------------------------------------------------------------
(* Properties of validation *)

ValidationReturned == op = "validateFIR"

TimeFormatError == "Time must be in HH:MM or HH:MM:SS format"

\* the two digits of a number below 100
TwoDigits(n) == <<Digits[(n \div 10) + 1], Digits[(n % 10) + 1]>>

\* a time of day written HH:MM or HH:MM:SS
IsTimeOfDay(str) ==
    /\ Len(str) \in {5, 8}
    /\ SubSeq(str, 1, 2) \in {TwoDigits(h) : h \in 0..23}
    /\ str[3] = ":"
    /\ SubSeq(str, 4, 5) \in {TwoDigits(m) : m \in 0..59}
    /\ Len(str) = 8 =>
           /\ str[6] = ":"
           /\ SubSeq(str, 7, 8) \in {TwoDigits(sec) : sec \in 0..59}

\* C17: validateFIR returns valid = false with the time format error for
\* every time string that is not a time of day in HH:MM or HH:MM:SS form,
\* two-digit values out of range such as 25:70 included, and has no time
\* format error for a time of day such as 14:30 and 14:30:45.
C17_TimeOfDayRequired ==
    ValidationReturned =>
        LET v == res.validation[1]
        IN  IF IsTimeOfDay(firs[v.fir].time)
            THEN TimeFormatError \notin Range(v.errors)
            ELSE ~v.valid /\ TimeFormatError \in Range(v.errors)

ReportReturned == op = "generateValidationReport"

DuplicatesReturned == op = "findDuplicates"

\* record i passes validateFIR
WellFormed(i) == validateFIR(firs[i], now).valid

\* the id of record i occurs at another position of the input
IdOccursAgain(i) == \E j \in 1..Len(firs) : j # i /\ firs[j].id = firs[i].id

\* the id of record i occurs at an earlier position of the input
IdSeenBefore(i) == \E j \in 1..(i - 1) : firs[j].id = firs[i].id

\* C18: the report has total = number of records, invalid = number of
\* records failing validateFIR, duplicates = number of records whose id
\* occurs more than once, and valid = number of well-formed records that do
\* not repeat an id already seen (total 4, valid 2, invalid 1, duplicates 2
\* for the batch A, B, A, record without id and crime type).
C18_ReportCounts ==
    ReportReturned =>
        /\ res.report.total = Len(firs)
        /\ res.report.invalid =
               Cardinality({i \in 1..Len(firs) : ~WellFormed(i)})
        /\ res.report.duplicates =
               Cardinality({i \in 1..Len(firs) : IdOccursAgain(i)})
        /\ res.report.valid =
               Cardinality({i \in 1..Len(firs) :
                               WellFormed(i) /\ ~IdSeenBefore(i)})

\* C19: findDuplicates returns, in input order, exactly the records whose
\* id occurs at least twice in the input, the first occurrence included,
\* and nothing when all ids are distinct.
C19_AllOccurrencesOfRepeatedIds ==
    DuplicatesReturned =>
        /\ res.duplicates =
               SelectSeq(AsSeq([i \in 1..Len(firs) |-> i]),
                         LAMBDA i : IdOccursAgain(i))
        /\ UniqueIds => res.duplicates = <<>>

\* the first and the third record share an id, the second has another
C19_Witness ==
    /\ DuplicatesReturned
    /\ Len(firs) = 3
    /\ firs[1].id = firs[3].id
    /\ firs[2].id # firs[1].id
    /\ res.duplicates = <<1, 3>>

\* records of distinct ids
C19_WitnessDistinct ==
    /\ DuplicatesReturned
    /\ Len(firs) = 3
    /\ UniqueIds
    /\ res.duplicates = <<>>

----------------------------------------------------------------------------
(* Properties of haversineDistance *)

DistancesReturned == op = "haversineDistance"

----------------------------------------------------------------------------
(* C21: detectHotspots terminates for every record set and every grid      *)
(* configuration given as plain data                                       *)

\* C21: every call of detectHotspots that has started eventually returns,
\* whatever the bounds and the cell sizes of the configuration
C21_DetectHotspotsTerminates == <>(loop.pc = "done")

\* the calls that do return: positive cell sizes, an empty latitude range,
\* or an empty record set
C21_ReturnsWhenSizesPositive ==
    (config.latGridSize > 0 /\ config.lngGridSize > 0) ~> (loop.pc = "done")

\* a call that returned after createGrid made the whole grid
C21_WitnessReturned ==
    /\ loop.pc = "done"
    /\ Len(firs) > 0
    /\ loop.cellId = 4
    /\ loop.cellId = Len(createGrid(config))

----------------------------------------------------------------------------
(* C22: grid assignment *)

\* the places of the record lists of grid that hold record i
CellsHolding(grid, i) ==
    {<<k, j>> \in (1..Len(grid)) \X (1..MaxFIRs) :
        j <= Len(grid[k].firs) /\ grid[k].firs[j] = i}

\* the cells of grid, in generation order, whose bounds contain record i
CellsAround(grid, i) ==
    {k \in 1..Len(grid) :
        /\ grid[k].minLat <= firs[i].latitude
        /\ firs[i].latitude < grid[k].maxLat
        /\ grid[k].minLng <= firs[i].longitude
        /\ firs[i].longitude < grid[k].maxLng}

\* generation order is row-major: by minLat, then by minLng (every cell
\* against the next one; the order is transitive)
RowMajor(grid) ==
    \A k \in 1..(Len(grid) - 1) :
        \/ grid[k].minLat < grid[k + 1].minLat
        \/ /\ grid[k].minLat = grid[k + 1].minLat
           /\ grid[k].minLng < grid[k + 1].minLng

\* the cells of grid that have a record
Occupied(grid) == {k \in 1..Len(grid) : Len(grid[k].firs) > 0}

\* C22: every record is in the record list of at most one cell, once, and
\* that cell is the first cell in row-major generation order whose bounds
\* contain it; the firCount of every cell is the length of its record list;
\* the hotspots are exactly the cells that have a record.
C22_AssignedToFirstCell ==
    HotspotsReturned /\ Len(firs) > 0 =>
        \A cells \in {createGrid(config)}, grid \in {AssignedGrid} :
            /\ RowMajor(cells)
            /\ Len(grid) = Len(cells)
            /\ \A i \in 1..Len(firs) :
                   \A around \in {CellsAround(cells, i)},
                      holding \in {CellsHolding(grid, i)} :
                       /\ Cardinality(holding) <= 1
                       /\ around = {} => holding = {}
                       /\ around # {} =>
                              {at[1] : at \in holding} = {Min(around)}
            /\ \A k \in 1..Len(grid) : grid[k].firCount = Len(grid[k].firs)
            /\ \A p \in 1..Len(res.hotspots) : res.hotspots[p].firCount > 0
            /\ {res.hotspots[p].zoneId : p \in 1..Len(res.hotspots)}
                   = {grid[k].id : k \in Occupied(grid)}
            /\ Len(res.hotspots) = Cardinality(Occupied(grid))

\* a grid of several cells: one with two records, one with none, and a
\* record that no cell contains
C22_Witness ==
    /\ HotspotsReturned
    /\ \E grid \in {AssignedGrid} :
           /\ Len(grid) >= 2
           /\ \E k \in 1..Len(grid) : Len(grid[k].firs) = 2
           /\ \E k \in 1..Len(grid) : Len(grid[k].firs) = 0
           /\ \E i \in 1..Len(firs) : CellsHolding(grid, i) = {}
           /\ Len(res.hotspots) = 1

----------------------------------------------------------------------------
(* C23: single-level clusters around seeds taken in input order *)

\* the distance between records i and j
Distance(i, j) ==
    haversineDistance(firs[i].latitude, firs[i].longitude,
                      firs[j].latitude, firs[j].longitude)

\* the seed of a cluster is its first element
Seed(cluster) == cluster[1]

\* the records that are in a cluster whose seed comes before record i in
\* the input
AssignedBefore(i) ==
    UNION {Range(res.clusters[c]) :
              c \in {d \in 1..Len(res.clusters) : Seed(res.clusters[d]) < i}}

\* every record not assigned before its turn seeds a cluster, and a cluster
\* is its seed with the records not assigned before that are within the
\* radius of the seed; members do not bring in their own neighbours
SingleLevelClusters ==
    /\ \A c \in 1..Len(res.clusters) : Len(res.clusters[c]) > 0
    /\ \A i \in 1..Len(firs) :
           i \notin AssignedBefore(i) =>
               \E c \in 1..Len(res.clusters) : Seed(res.clusters[c]) = i
    /\ \A c \in 1..Len(res.clusters) :
           LET seed == Seed(res.clusters[c])
           IN  Range(res.clusters[c]) =
                   {seed} \cup {j \in 1..Len(firs) :
                                  /\ j \notin AssignedBefore(seed)
                                  /\ Distance(seed, j) <= query.radiusKm}

\* records A, B, C in input order, A near B, B near C, A not near C
Chain ==
    /\ Len(firs) = 3
    /\ Distance(1, 2) <= query.radiusKm
    /\ Distance(2, 3) <= query.radiusKm
    /\ Distance(1, 3) > query.radiusKm

\* C23 as stated: for every record set, clusters are single-level groups
\* around seeds taken in input order, and a chain A, B, C gives the two
\* clusters {A, B} and {C}.
C23_SingleLevelAnyIds ==
    ClustersReturned =>
        /\ SingleLevelClusters
        /\ Chain => res.clusters = <<(<<1, 2>>), (<<3>>)>>

\* C23 amended: the same for record sets whose identifiers are pairwise
\* distinct.
C23_SingleLevelUniqueIds ==
    (ClustersReturned /\ UniqueIds) =>
        /\ SingleLevelClusters
        /\ Chain => res.clusters = <<(<<1, 2>>), (<<3>>)>>

\* the chain A, B, C with distinct identifiers, clustered
C23_Witness ==
    /\ ClustersReturned
    /\ UniqueIds
    /\ Chain
    /\ res.clusters = <<(<<1, 2>>), (<<3>>)>>

----------------------------------------------------------------------------
(* C28: the shape of a cluster *)

\* C28: for a radius >= 0 no returned cluster is empty, the first element
\* of a cluster is its seed (the earliest of its records in the input, and
\* in no cluster of an earlier seed), and every member is within radiusKm
\* of the seed.
C28_SeedFirstMembersNear ==
    (ClustersReturned /\ query.radiusKm >= 0) =>
        \A c \in 1..Len(res.clusters) :
            LET cluster == res.clusters[c]
            IN  /\ Len(cluster) > 0
                /\ Seed(cluster) = Min(Range(cluster))
                /\ Seed(cluster) \notin AssignedBefore(Seed(cluster))
                /\ \A p \in 1..Len(cluster) :
                       Distance(Seed(cluster), cluster[p]) <= query.radiusKm

\* a cluster with a member exactly at the radius from its seed, and a record
\* beyond the radius in a cluster of its own
C28_Witness ==
    /\ ClustersReturned
    /\ query.radiusKm > 0
    /\ Len(res.clusters) = 2
    /\ Len(res.clusters[1]) = 2
    /\ Distance(res.clusters[1][1], res.clusters[1][2]) = query.radiusKm
    /\ Distance(res.clusters[1][1], res.clusters[2][1]) > query.radiusKm

----------------------------------------------------------------------------
(* C29: the sum of the peakHours counts *)

\* validateFIR accepts the record: the records of the insight specification
\* differ from a valid record in the fields the aggregator reads, of which
\* validateFIR checks the time
AcceptedByValidateFIR(fir) ==
    validateFIR([ValidFIR EXCEPT !.time = fir.time], now).valid

PeakHoursSum ==
    SumSeq([p \in 1..Len(res.insights.peakHours) |->
               res.insights.peakHours[p].count])

\* C29: when validateFIR accepts every record of the set, the counts of the
\* 24 peakHours buckets sum to totalFIRs, the number of records.
C29_PeakHoursSumToTotal ==
    (InsightsReturned /\ \A i \in 1..Len(firs) : AcceptedByValidateFIR(firs[i]))
        => /\ Len(res.insights.peakHours) = 24
           /\ res.insights.totalFIRs = Len(firs)
           /\ PeakHoursSum = res.insights.totalFIRs

\* what holds of every record set: the buckets hold the records whose hour
\* is one of 0..23
C29_PeakHoursSumOfDayHours ==
    InsightsReturned =>
        PeakHoursSum = Cardinality({i \in 1..Len(firs) :
                                       TimeHour(firs[i].time) \in 0..23})

----------------------------------------------------------------------------
(* C24: the fields of a row *)

RowParsed == op = "parseCSVRow"

\* a character is outside double quotes when an even number of quote
\* characters comes before it
QuotesBefore(i) == Cardinality({j \in 1..(i - 1) : content[j] = Quote})

UnquotedCommas ==
    {i \in 1..Len(content) : content[i] = "," /\ QuotesBefore(i) % 2 = 0}

\* the k-th field lies between the (k-1)-th and the k-th unquoted comma
FieldStart(k) ==
    IF k = 1 THEN 1
    ELSE 1 + CHOOSE i \in UnquotedCommas :
                 Cardinality({j \in UnquotedCommas : j <= i}) = k - 1

FieldEnd(k) ==
    IF k = Cardinality(UnquotedCommas) + 1 THEN Len(content)
    ELSE (CHOOSE i \in UnquotedCommas :
              Cardinality({j \in UnquotedCommas : j <= i}) = k) - 1

\* the first quote of the run of consecutive quotes that holds position i
RunStart(i) ==
    Min({s \in 1..i : \A j \in s..i : content[j] = Quote})

\* a quote is followed by a quote
QuoteFollows(i) == i < Len(content) /\ content[i + 1] = Quote

\* a quote character that yields a literal quote: the first of a doubled
\* quote inside a quoted section.  In a run of quotes that starts outside
\* quotes the first quote opens the section and the pairs follow it; in a
\* run that starts inside quotes the pairs start at once.
LiteralQuote(i) ==
    /\ content[i] = Quote
    /\ QuoteFollows(i)
    /\ LET r == i - RunStart(i) + 1
       IN  IF QuotesBefore(RunStart(i)) % 2 = 0 THEN r % 2 = 0 ELSE r % 2 = 1

\* the characters of positions a..b that stay in the value, in order
KeptFrom(a, b) ==
    SelectSeq([p \in 1..(b - a + 1) |-> a + p - 1],
              LAMBDA i : content[i] # Quote \/ LiteralQuote(i))

FieldValue(k) ==
    LET kept == KeptFrom(FieldStart(k), FieldEnd(k))
    IN  Trim([p \in 1..Len(kept) |-> content[kept[p]]])

\* C24: the row is split at the commas outside double quotes and nowhere
\* else: there is one field more than there are unquoted commas, and the
\* value of a field is what lies between two unquoted commas, quoted commas
\* included, without its quote characters but with one quote for every
\* doubled quote inside a quoted section (and without the blanks around it).
C24_SplitAtUnquotedCommas ==
    RowParsed =>
        /\ Len(res.values) = Cardinality(UnquotedCommas) + 1
        /\ \A k \in 1..Len(res.values) : res.values[k] = FieldValue(k)

\* the row ",""",  : a quoted field that holds a comma and a doubled quote,
\* then an unquoted comma and an empty field
C24_Witness ==
    /\ RowParsed
    /\ content = <<Quote, ",", Quote, Quote, Quote, ",">>
    /\ res.values = <<(<<",", Quote>>), (<<>>)>>

\* the row a," ,a": an unquoted comma, then a quoted field with a comma
C24_WitnessQuotedComma ==
    /\ RowParsed
    /\ content = <<"a", ",", Quote, ",", "a", Quote>>
    /\ res.values = <<(<<"a">>), (<<",", "a">>)>>

----------------------------------------------------------------------------
(* C30: one outcome for every data row *)

Parsed == op = "parseCSV"

BlankKinds == {"blank", "spaces"}

\* the identifier written in a data row
RowId(kind) ==
    CASE kind = "ok" -> <<"F", "1">>
      [] kind = "quoted" -> <<"F", "2">>
      [] kind = "badLatitude" -> <<"F", "3">>
      [] kind = "noCrimeType" -> <<"F", "4">>
      [] kind = "badTime" -> <<"F", "5">>

\* the lines of the content that are not blank
NonBlankRows == SelectSeq(query.rows, LAMBDA kind : kind \notin BlankKinds)

\* the header row, the first line that is not blank, has all required headers
HeaderComplete == query.header = "full"

\* the content has no line that is not blank
ContentEmpty == query.header = "none" /\ NonBlankRows = <<>>

\* the first line that is not blank lacks a required header
HeaderIncomplete ==
    \/ query.header = "short"
    \/ query.header = "none" /\ NonBlankRows # <<>>

\* every data row that is not blank is one record or one error "Row N: ",
\* N being the number of the row among the lines that are not blank, and
\* the records are those of the rows without error, in the order of the rows
OneOutcomePerDataRow ==
    LET records == res.parsed.records
        errors == res.parsed.errors
        n == Len(NonBlankRows)
        good == SelectSeq([p \in 1..n |-> p],
                          LAMBDA p : \A e \in 1..Len(errors) :
                                        errors[e].row # p + 1)
    IN  /\ Len(records) + Len(errors) = n
        /\ \A e \in 1..Len(errors) : errors[e].row \in 2..(n + 1)
        /\ \A e, f \in 1..Len(errors) : e < f => errors[e].row < errors[f].row
        /\ Len(records) = Len(good)
        /\ \A k \in 1..Len(records) :
               records[k].id = RowId(NonBlankRows[good[k]])

NoRecordOneError ==
    /\ res.parsed.records = <<>>
    /\ Len(res.parsed.errors) = 1
    /\ res.parsed.errors[1].row = 0

\* C30 as stated: with a complete header row every data row that is not
\* blank gives one record or one error, so that records.length +
\* errors.length is the number of such rows, the records in the order of
\* their rows; with an empty content or an incomplete header row there is
\* no record and one error.
C30_OneOutcomePerRow ==
    Parsed =>
        /\ HeaderComplete => OneOutcomePerDataRow
        /\ (ContentEmpty \/ HeaderIncomplete) => NoRecordOneError

\* C30 amended: the same when the complete header row is followed by at
\* least one data row that is not blank; a complete header row followed by
\* no such row gives no record and one error.
C30_OneOutcomePerRowIfAny ==
    Parsed =>
        /\ (HeaderComplete /\ NonBlankRows # <<>>) => OneOutcomePerDataRow
        /\ (HeaderComplete /\ NonBlankRows = <<>>) =>
               /\ NoRecordOneError
               /\ res.parsed.errors[1].message =
                      "CSV must contain at least headers and one data row"
        /\ (ContentEmpty \/ HeaderIncomplete) => NoRecordOneError

\* a record of row 2, a blank line, and the error of row 3
C30_Witness ==
    /\ Parsed
    /\ query = [header |-> "full", rows |-> <<"ok", "spaces", "badLatitude">>]
    /\ Len(res.parsed.records) = 1
    /\ res.parsed.records[1].id = <<"F", "1">>
    /\ Len(res.parsed.errors) = 1
    /\ res.parsed.errors[1].row = 3
    /\ res.parsed.errors[1].message = "Invalid latitude"

\* an incomplete header row: one error that names the missing headers
C30_WitnessHeader ==
    /\ Parsed
    /\ query = [header |-> "short", rows |-> <<"ok">>]
    /\ res.parsed.records = <<>>
    /\ res.parsed.errors =
           <<ParseError(0, "Missing required headers",
                        <<Column.latitude, Column.longitude, Column.area,
                          Column.zone, Column.policestation>>)>>

\* the row with a quoted comma: its field keeps the comma
C30_WitnessQuoted ==
    /\ Parsed
    /\ query = [header |-> "full", rows |-> <<"quoted">>]
    /\ Len(res.parsed.records) = 1
    /\ res.parsed.records[1].crimeType = <<"T", ",", " ", "a">>
    /\ res.parsed.records[1].date = [kind |-> "valid", t |-> 0]

----------------------------------------------------------------------------
(* C25: the records on display are the filtered records *)

\* C25: after any sequence of the user's actions, filteredFIRs is
\* searchAndFilter(allFIRs, filters, searchQuery) for the filters and the
\* searchQuery of the same state
C25_FilteredIsSearchAndFilter ==
    state.filteredFIRs =
        searchAndFilter(state.allFIRs, state.filters, state.searchQuery)

\* the same after the handlers that compute filteredFIRs from the criteria
\* they store: the search, a change of the filters, and 'Reset Filters'
C25_AfterSearchOrFilters ==
    op \in {"none", "handleSearch", "onFiltersChange", "handleResetFilters"}
        => C25_FilteredIsSearchAndFilter

----------------------------------------------------------------------------
(* C26: an upload of which some record failed *)

Uploaded == op = "handleFileUpload"

\* some record of the upload failed validateFIRBatch or was not added
SomeRecordFailed == res.upload.invalid > 0 \/ res.upload.failed > 0

\* C26: when the handler of an upload has finished of which some record
\* failed validateFIRBatch or failed to be added to the store, error still
\* reports that failure
C26_FailureStillReported ==
    (Uploaded /\ SomeRecordFailed) =>
        state.error.message \in
            {"records failed validation", "Failed to add records"}

\* what the handler leaves instead: after an upload without parse errors,
\* error is null
C26_ErrorNullAfterImport ==
    (Uploaded /\ res.upload.parsed.errors = <<>>) => state.error = NoError

----------------------------------------------------------------------------
(* C27: an upload whose parse reports errors *)

\* the first n entries of a sequence, or all if it has fewer
FirstOf(seq, n) == [k \in 1..(IF Len(seq) < n THEN Len(seq) ELSE n) |-> seq[k]]

\* C27: an upload whose parse reports at least one error adds no record to
\* the store and leaves allFIRs, filteredFIRs, hotspots, filters and
\* searchQuery as they were; error becomes the message of the first three
\* parse errors, or of all if they are fewer
C27_ParseErrorsImportNothing ==
    [][(op' = "handleFileUpload" /\ Len(res'.upload.parsed.errors) > 0) =>
          /\ store' = store
          /\ state'.allFIRs = state.allFIRs
          /\ state'.filteredFIRs = state.filteredFIRs
          /\ state'.hotspots = state.hotspots
          /\ state'.filters = state.filters
          /\ state'.searchQuery = state.searchQuery
          /\ state'.error.message = "CSV Import Errors"
          /\ state'.error.errors = FirstOf(res'.upload.parsed.errors, 3)]_vars

\* an upload with four parse errors and one good row, while a filter is
\* set and a record was imported before: the message has the first three
\* errors, the store has the three records it had
C27_Witness ==
    /\ Uploaded
    /\ Len(res.upload.parsed.errors) = 4
    /\ Len(res.upload.parsed.records) = 1
    /\ Len(state.error.errors) = 3
    /\ state.error.errors[3].row = 5
    /\ Len(store) = 3
    /\ state.filters # resetFilters

====
